---- MODULE Spec2Model ----
(***************************************************************************)
(* Model of the SageMCP protocol core: the per-session dispatcher          *)
(* (sage_mcp/mcp/server.py), the connector registry, the credential lookup *)
(* and the SSE binding (sage_mcp/api/mcp.py).                              *)
(*                                                                         *)
(* Strings that the code splits are modelled by what the split sees:       *)
(*  - a name is the sequence of its '_'-free segments, so                   *)
(*    "google_docs_get" is <<"google", "docs", "get">> and                  *)
(*    name.split("_", 1) is (first segment, remaining segments);            *)
(*  - a URI is the sequence of its "://"-free parts, each part a name.      *)
(* An optional value (Optional[X]) is a sequence of length 0 or 1.         *)
(***************************************************************************)
EXTENDS Naturals, Sequences, FiniteSets, TLC

VARIABLES
    tenants,            \* rows of table tenants
    connectors,         \* rows of table connectors
    oauth_credentials,  \* rows of table oauth_credentials
    registry,           \* connector_registry: [_connectors, _connector_types]
    server,             \* the session's MCPServer: [tenant_slug, tenant, connectors]
    phase,              \* "new" | "ready" | "failed": outcome of initialize
    last,               \* the last operation served by the dispatcher
    sse,                \* one SSE stream (mcp_sse.event_stream)
    http,               \* the bodies posted to mcp_http and the responses to them
    admin,              \* the last operation of the admin API and its outcome
    cli,                \* a CLISessionStorage and the clock it reads
    ws,                 \* the WebSocket connections (mcp_websocket)
    toggles,            \* the toggle_connector requests in flight
    threads             \* the threads inside CLISessionStorage and its _lock

vars == <<tenants, connectors, oauth_credentials, registry, server, phase, last,
          sse, http, admin, cli, ws, toggles, threads>>

dbVars == <<tenants, connectors, oauth_credentials>>

taskVars == <<ws, toggles, threads>>

apiVars == <<http, admin, cli, taskVars>>

----------------------------------------------------------------------------
(* Bounds of the model *)

\* credential rows stored for a (tenant, provider) pair, one per provider user
MaxCreds == 2

\* tools each plugin lists (a prefix of the plugin's tool list)
MaxTools == 2

\* messages the SSE producer queues
MaxMsgs == 3

\* bodies posted to the HTTP binding
MaxReqs == 3

\* the clock of the CLI session storage runs from 0 to MaxTime
MaxTime == 4

\* the frames a client sends on one WebSocket connection
MaxFrames == 2

----------------------------------------------------------------------------
(* ConnectorType, by value *)

GITHUB      == <<"github">>
GITLAB      == <<"gitlab">>
GOOGLE_DOCS == <<"google", "docs">>
NOTION      == <<"notion">>
CONFLUENCE  == <<"confluence">>
JIRA        == <<"jira">>
LINEAR      == <<"linear">>
SLACK       == <<"slack">>
TEAMS       == <<"teams">>
DISCORD     == <<"discord">>
ZOOM        == <<"zoom">>

ConnectorType ==
    {GITHUB, GITLAB, GOOGLE_DOCS, NOTION, CONFLUENCE, JIRA, LINEAR, SLACK,
     TEAMS, DISCORD, ZOOM}

\* the connector types the tenant's rows and the requests are drawn from:
\* two types without '_' whose plugins the package registers on import, and
\* the one type with '_'
ModelTypes == {GITHUB, JIRA, GOOGLE_DOCS}

Slugs == {"acme", "ghost"}

Min(a, b) == IF a < b THEN a ELSE b

Range(s) == {s[i] : i \in DOMAIN s}

Prefix(s, n) == SubSeq(s, 1, Min(n, Len(s)))

----------------------------------------------------------------------------
(* Plugins *)

\* plugin classes: GitHubConnector, NotionConnector and ZoomConnector;
\* JiraConnector, which the package imports and whose methods are only known
\* by the ConnectorPlugin protocol; and GoogleDocsConnector, a plugin
\* written against the protocol for ConnectorType.GOOGLE_DOCS
PluginClasses ==
    {"GitHubConnector", "NotionConnector", "ZoomConnector", "JiraConnector",
     "GoogleDocsConnector"}

\* BaseConnector.name: the class name, lowered, without "connector"
name(cls) ==
    CASE cls = "GitHubConnector"     -> "github"
      [] cls = "NotionConnector"     -> "notion"
      [] cls = "ZoomConnector"       -> "zoom"
      [] cls = "JiraConnector"       -> "jira"
      [] cls = "GoogleDocsConnector" -> "googledocs"

requires_oauth(cls) ==
    CASE cls = "GitHubConnector"     -> TRUE
      [] cls = "NotionConnector"     -> TRUE
      [] cls = "ZoomConnector"       -> TRUE
      [] cls = "JiraConnector"       -> TRUE
      [] cls = "GoogleDocsConnector" -> FALSE

\* the '{connector_type}_' prefix of the names a plugin emits
ToolPrefix(cls) ==
    CASE cls = "GitHubConnector"     -> GITHUB
      [] cls = "NotionConnector"     -> NOTION
      [] cls = "ZoomConnector"       -> ZOOM
      [] cls = "JiraConnector"       -> JIRA
      [] cls = "GoogleDocsConnector" -> GOOGLE_DOCS

\* the tool names execute_tool tells apart, in the order of its if/elif chain
ToolActions(cls) ==
    CASE cls = "GitHubConnector" ->
            << <<"list", "repositories">>, <<"get", "repository">>,
               <<"list", "issues">>, <<"get", "file", "content">>,
               <<"list", "pull", "requests">>,
               <<"search", "repositories">>,
               <<"check", "token", "scopes">>,
               <<"list", "organizations">>, <<"get", "user", "info">> >>
      [] cls = "NotionConnector" ->
            << <<"list", "databases">>, <<"search">>, <<"get", "page">>,
               <<"get", "page", "content">>, <<"get", "database">>,
               <<"query", "database">>, <<"create", "page">>,
               <<"append", "block", "children">>, <<"update", "page">>,
               <<"get", "block">> >>
      [] cls = "ZoomConnector" ->
            << <<"list", "meetings">>, <<"get", "meeting">>,
               <<"create", "meeting">>, <<"update", "meeting">>,
               <<"delete", "meeting">>, <<"get", "user">>,
               <<"list", "recordings">>,
               <<"get", "meeting", "recordings">>, <<"list", "webinars">>,
               <<"get", "webinar">>,
               <<"list", "meeting", "participants">>,
               <<"get", "meeting", "invitation">> >>
      [] cls = "JiraConnector" ->
            << <<"search", "issues">>, <<"get", "issue">> >>
      [] cls = "GoogleDocsConnector" ->
            << <<"get", "document">>, <<"list", "documents">> >>

\* tool names that carry no prefix
tool_names_Unprefixed(cls) == ToolActions(cls)

\* the names of the types.Tool descriptors get_tools builds, as written in
\* the plugin, in listing order
tool_names(cls) ==
    CASE cls = "GitHubConnector" ->
            << <<"github", "list", "repositories">>,
               <<"github", "get", "repository">>,
               <<"github", "list", "issues">>,
               <<"github", "get", "file", "content">>,
               <<"github", "list", "pull", "requests">>,
               <<"github", "search", "repositories">>,
               <<"github", "check", "token", "scopes">>,
               <<"github", "list", "organizations">>,
               <<"github", "get", "user", "info">> >>
      [] cls = "NotionConnector" ->
            << <<"notion", "list", "databases">>, <<"notion", "search">>,
               <<"notion", "get", "page">>,
               <<"notion", "get", "page", "content">>,
               <<"notion", "get", "database">>,
               <<"notion", "query", "database">>,
               <<"notion", "create", "page">>,
               <<"notion", "append", "block", "children">>,
               <<"notion", "update", "page">>,
               <<"notion", "get", "block">> >>
      [] cls = "ZoomConnector" ->
            << <<"zoom", "list", "meetings">>,
               <<"zoom", "get", "meeting">>,
               <<"zoom", "create", "meeting">>,
               <<"zoom", "update", "meeting">>,
               <<"zoom", "delete", "meeting">>, <<"zoom", "get", "user">>,
               <<"zoom", "list", "recordings">>,
               <<"zoom", "get", "meeting", "recordings">>,
               <<"zoom", "list", "webinars">>,
               <<"zoom", "get", "webinar">>,
               <<"zoom", "list", "meeting", "participants">>,
               <<"zoom", "get", "meeting", "invitation">> >>
      [] cls = "JiraConnector" ->
            << <<"jira", "search", "issues">>, <<"jira", "get", "issue">> >>
      [] cls = "GoogleDocsConnector" ->
            << <<"google", "docs", "get", "document">>,
               <<"google", "docs", "list", "documents">> >>

\* plugins whose methods may raise: GitHubConnector, NotionConnector and
\* ZoomConnector return fixed tool lists and wrap their API calls in
\* try/except; the protocol does not keep another plugin from raising
MayRaise(cls) == cls = "JiraConnector"

----------------------------------------------------------------------------
(* Rows of the three tables *)

\* the one tenant row of the model; slug "ghost" names no row
TenantRows == [id : {"t1"}, slug : {"acme"}, is_active : BOOLEAN]

ConnectorRows ==
    [tenant_id : {"t1"}, connector_type : ModelTypes, is_enabled : BOOLEAN]

\* OAuthCredential rows; is_expired stands for expires_at < utcnow(). The
\* table is the number of rows of each content: rows differ in the provider
\* user they belong to, which nothing but oauth_callback's own key reads
CredRows ==
    [tenant_id : {"t1"}, provider : {GITHUB}, is_active : BOOLEAN, is_expired : BOOLEAN]

RECURSIVE RowCount(_, _)
RowCount(table, rows) ==
    IF rows = {} THEN 0
    ELSE LET r == CHOOSE x \in rows : TRUE
         IN  table[r] + RowCount(table, rows \ {r})

CredTables == {t \in [CredRows -> 0..MaxCreds] : RowCount(t, CredRows) <= MaxCreds}

\* UniqueConstraint('tenant_id', 'connector_type')
uq_tenant_connector_type(rows) ==
    \A a, b \in rows :
        (a.tenant_id = b.tenant_id /\ a.connector_type = b.connector_type) => a = b

\* the orders in which a query without ORDER BY may return a set of rows
Orderings(S) ==
    {q \in [1..Cardinality(S) -> S] : \A i, j \in DOMAIN q : q[i] = q[j] => i = j}

----------------------------------------------------------------------------
(* Connector registry *)

PluginNames == {name(cls) : cls \in PluginClasses}

\* ConnectorRegistry.__init__. Every register call creates an instance of
\* its own, connector_class(): _created_for tells the instances of one class
\* apart by the type of the call that created the one stored under a name
EmptyRegistry ==
    [_connectors |-> [n \in PluginNames |-> <<>>],
     _connector_types |-> [t \in ConnectorType |-> <<>>],
     _created_for |-> [n \in PluginNames |-> <<>>]]

\* a registration that keeps the mapping a type already has
register_FirstWins(reg, connector_type, connector_class) ==
    IF reg._connector_types[connector_type] # <<>> THEN reg
    ELSE [_connectors |->
            [reg._connectors EXCEPT ![name(connector_class)] = <<connector_class>>],
          _connector_types |->
            [reg._connector_types EXCEPT ![connector_type] = <<name(connector_class)>>],
          _created_for |->
            [reg._created_for EXCEPT ![name(connector_class)] = <<connector_type>>]]

\* ConnectorRegistry.register
register(reg, connector_type, connector_class) ==
    [_connectors |->
        [reg._connectors EXCEPT ![name(connector_class)] = <<connector_class>>],
     _connector_types |->
        [reg._connector_types EXCEPT ![connector_type] = <<name(connector_class)>>],
     _created_for |->
        [reg._created_for EXCEPT ![name(connector_class)] = <<connector_type>>]]

\* ConnectorRegistry.get_connector
get_connector(connector_type) ==
    LET connector_name == registry._connector_types[connector_type]
    IN  IF connector_name = <<>> THEN <<>>
        ELSE registry._connectors[connector_name[1]]

\* the instance get_connector returns: its class and the call it is from
get_connector_instance(connector_type) ==
    LET connector_name == registry._connector_types[connector_type]
    IN  IF connector_name = <<>> THEN <<>>
        ELSE <<[plugin |-> registry._connectors[connector_name[1]],
                created_for |-> registry._created_for[connector_name[1]]]>>

\* the registrations made by the decorators of the shipped plugin modules
ShippedRegistry ==
    register(register(register(register(EmptyRegistry,
        GITHUB, "GitHubConnector"), JIRA, "JiraConnector"),
        NOTION, "NotionConnector"), ZOOM, "ZoomConnector")

----------------------------------------------------------------------------
(* What a request meets outside the dispatcher: which credential lookups  *)
(* fail in the database, which plugin calls raise, whether the third-party *)
(* API answers                                                             *)

Env == [db_fails : SUBSET ModelTypes, raises : SUBSET ModelTypes, api_ok : BOOLEAN]

\* the plugin class whose decorator or registration serves a type
ClassOf(connector_type) ==
    {cls \in PluginClasses : ToolPrefix(cls) = connector_type}

\* the environments that differ for a session: a fault can only meet a
\* lookup made for one of the session's connectors whose plugin requires
\* OAuth, or a call made to the plugin of one of them that may raise
EnvOf(conns) ==
    LET types == {conns[i].connector_type : i \in DOMAIN conns}
        looked_up == {t \in types : \E cls \in ClassOf(t) : requires_oauth(cls)}
        raising == {t \in types : \E cls \in ClassOf(t) : MayRaise(cls)}
    IN  {e \in Env : e.db_fails \subseteq looked_up /\ e.raises \subseteq raising}

\* outcome of a piece of the dispatcher: it returned value or raised, after
\* making the plugin calls and the credential lookups listed
Ret(value, calls, lookups) ==
    [raised |-> FALSE, value |-> value, calls |-> calls, lookups |-> lookups]

Raise(calls, lookups) ==
    [raised |-> TRUE, value |-> <<>>, calls |-> calls, lookups |-> lookups]

----------------------------------------------------------------------------
(* Credential lookup *)

\* the predicate without the test of is_expired
validate_oauth_credential_NoExpiry(cls, oauth_cred) ==
    IF ~requires_oauth(cls) THEN TRUE
    ELSE IF oauth_cred = <<>> \/ ~oauth_cred[1].is_active THEN FALSE
    ELSE TRUE

\* BaseConnector.validate_oauth_credential, for a requires_oauth plugin and
\* an Optional credential
validate_oauth_credential(cls, oauth_cred) ==
    IF ~requires_oauth(cls) THEN TRUE
    ELSE IF oauth_cred = <<>> \/ ~oauth_cred[1].is_active THEN FALSE
    ELSE IF oauth_cred[1].is_expired THEN FALSE
    ELSE TRUE

\* a criterion that filters nothing
IsActiveCriterion_FiltersNothing(row) == TRUE

\* the third criterion of the query, `OAuthCredential.is_active is True`:
\* Python's identity test of the column attribute against True, which is the
\* constant False whatever the row holds
IsActiveCriterion(row) == FALSE

\* the contents the query of _get_oauth_credential selects
CredentialQuery(tenant_id, provider) ==
    {c \in DOMAIN oauth_credentials :
        /\ oauth_credentials[c] > 0
        /\ c.tenant_id = tenant_id
        /\ c.provider = provider
        /\ IsActiveCriterion(c)}

\* MCPServer._get_oauth_credential: scalar_one_or_none of the query; raises
\* when the database fails or the query selects several rows
_get_oauth_credential(tenant_id, provider, e) ==
    LET rows == CredentialQuery(tenant_id, provider)
        lookup == [tenant_id |-> tenant_id, provider |-> provider, raised |-> FALSE]
    IN  IF provider \in e.db_fails \/ RowCount(oauth_credentials, rows) > 1
        THEN Raise(<<>>, <<[lookup EXCEPT !.raised = TRUE]>>)
        ELSE IF rows = {} THEN Ret(<<>>, <<>>, <<lookup>>)
        ELSE Ret(<<CHOOSE c \in rows : TRUE>>, <<>>, <<lookup>>)

\* the `if connector_plugin.requires_oauth:` step before every plugin call
ResolveCredential(cls, connector, e) ==
    IF requires_oauth(cls)
    THEN _get_oauth_credential(connector.tenant_id, connector.connector_type, e)
    ELSE Ret(<<>>, <<>>, <<>>)

----------------------------------------------------------------------------
(* Plugin methods *)

\* what handlers and plugins return: lists of text payloads (a message and
\* the name it is about), of tool descriptors and of resource descriptors
Text(message, about) == [text |-> message, about |-> about, uri |-> <<>>]

TextUri(message, uri) == [text |-> message, about |-> <<>>, uri |-> uri]

Tool(tool_name) == [text |-> "tool", about |-> tool_name, uri |-> <<>>]

Resource(uri) == [text |-> "resource", about |-> <<>>, uri |-> uri]

\* whether this call of a plugin method raises
PluginRaises(cls, connector, e) ==
    MayRaise(cls) /\ connector.connector_type \in e.raises

\* get_tools of a plugin: the first MaxTools descriptors of its list; the
\* shipped plugins return them whatever the credential is
get_tools(cls, oauth_cred) ==
    LET names == Prefix(tool_names(cls), MaxTools)
    IN  [i \in DOMAIN names |-> Tool(names[i])]

\* the URI '{scheme}://{path}' of the one resource a plugin lists
ResourceUri(cls) == <<ToolPrefix(cls), <<"doc">>>>

\* get_resources of a plugin: nothing without a usable credential or when
\* the third-party API fails
get_resources(cls, oauth_cred, e) ==
    IF requires_oauth(cls) /\ (oauth_cred = <<>> \/ ~validate_oauth_credential(cls, oauth_cred))
    THEN <<>>
    ELSE IF ~e.api_ok THEN <<>>
    ELSE <<Resource(ResourceUri(cls))>>

\* execute_tool without the test of the credential
execute_tool_NoCredentialCheck(cls, tool_name, oauth_cred, e) ==
    IF tool_name \notin Range(ToolActions(cls))
    THEN Text("Unknown tool", tool_name)
    ELSE IF ~e.api_ok THEN Text("Error executing plugin tool", tool_name)
    ELSE Text("result", tool_name)

\* the tools for which execute_tool sends a request to the third-party API:
\* the branches of its if/elif chain, which it reaches after the credential
\* test only
api_requests(cls, tool_name, oauth_cred) ==
    IF requires_oauth(cls) /\ (oauth_cred = <<>> \/ ~validate_oauth_credential(cls, oauth_cred))
    THEN <<>>
    ELSE IF tool_name \notin Range(ToolActions(cls)) THEN <<>>
    ELSE <<tool_name>>

\* execute_tool of a plugin, when it does not raise
execute_tool(cls, tool_name, oauth_cred, e) ==
    IF requires_oauth(cls) /\ (oauth_cred = <<>> \/ ~validate_oauth_credential(cls, oauth_cred))
    THEN Text("Error: Invalid or expired credentials", <<>>)
    ELSE IF tool_name \notin Range(ToolActions(cls))
    THEN Text("Unknown tool", tool_name)
    ELSE IF ~e.api_ok THEN Text("Error executing plugin tool", tool_name)
    ELSE Text("result", tool_name)

\* read_resource of a plugin, when it does not raise
read_resource(cls, resource_path, oauth_cred, e) ==
    IF requires_oauth(cls) /\ (oauth_cred = <<>> \/ ~validate_oauth_credential(cls, oauth_cred))
    THEN Text("Error: Invalid or expired credentials", <<>>)
    ELSE IF ~e.api_ok THEN TextUri("Error reading plugin resource", resource_path)
    ELSE TextUri("content", resource_path)

\* the record of one plugin call: the method, the connector it is made for,
\* the plugin, the credential handed over and what the plugin returned
Call(method, connector, cls, oauth_cred, returned) ==
    [method |-> method, connector |-> connector, plugin |-> cls,
     oauth_cred |-> oauth_cred, raised |-> FALSE, returned |-> returned]

\* the record of a plugin call that raised
RaisedCall(method, connector, cls, oauth_cred) ==
    [method |-> method, connector |-> connector, plugin |-> cls,
     oauth_cred |-> oauth_cred, raised |-> TRUE, returned |-> <<>>]

----------------------------------------------------------------------------
(* Dispatcher: MCPServer *)

\* name.split("_", 1)
SplitName(tool_name) ==
    IF Len(tool_name) < 2 THEN <<tool_name>>
    ELSE <<<<Head(tool_name)>>, Tail(tool_name)>>

\* uri.split("://", 1)
SplitUri(uri) ==
    IF Len(uri) < 2 THEN <<uri[1]>>
    ELSE <<Head(uri), Tail(uri)>>

\* the loop without the test of conn.is_enabled
FindConnector_IgnoresEnabled(conns, value) ==
    LET hits == {i \in DOMAIN conns : conns[i].connector_type = value}
    IN  IF hits = {} THEN <<>>
        ELSE <<conns[CHOOSE i \in hits : \A j \in hits : i <= j]>>

\* the loop `for conn in self.connectors: if conn.connector_type.value ==
\* value and conn.is_enabled: connector = conn; break`
FindConnector(conns, value) ==
    LET hits == {i \in DOMAIN conns :
                    conns[i].connector_type = value /\ conns[i].is_enabled}
    IN  IF hits = {} THEN <<>>
        ELSE <<conns[CHOOSE i \in hits : \A j \in hits : i <= j]>>

\* MCPServer._get_connector_tools
_get_connector_tools(connector, e) ==
    LET connector_plugin == get_connector(connector.connector_type)
    IN  IF connector_plugin = <<>> THEN Ret(<<>>, <<>>, <<>>)
        ELSE
        LET cls == connector_plugin[1]
            cred == ResolveCredential(cls, connector, e)
        IN  IF cred.raised THEN Raise(<<>>, cred.lookups)
            ELSE IF PluginRaises(cls, connector, e)
            THEN Ret(<<>>,
                     <<RaisedCall("get_tools", connector, cls, cred.value)>>,
                     cred.lookups)
            ELSE LET tools == get_tools(cls, cred.value)
                 IN  Ret(tools,
                         <<Call("get_tools", connector, cls, cred.value, tools)>>,
                         cred.lookups)

\* MCPServer._get_connector_resources
_get_connector_resources(connector, e) ==
    LET connector_plugin == get_connector(connector.connector_type)
    IN  IF connector_plugin = <<>> THEN Ret(<<>>, <<>>, <<>>)
        ELSE
        LET cls == connector_plugin[1]
            cred == ResolveCredential(cls, connector, e)
        IN  IF cred.raised THEN Raise(<<>>, cred.lookups)
            ELSE IF PluginRaises(cls, connector, e)
            THEN Ret(<<>>,
                     <<RaisedCall("get_resources", connector, cls, cred.value)>>,
                     cred.lookups)
            ELSE LET resources == get_resources(cls, cred.value, e)
                 IN  Ret(resources,
                         <<Call("get_resources", connector, cls, cred.value, resources)>>,
                         cred.lookups)

\* what follows an enabled connector's part r in a listing loop: an
\* exception leaves the loop, a list is extended by the rest of the loop
Extend(r, rest) ==
    IF r.raised THEN r
    ELSE [raised  |-> rest.raised,
          value   |-> IF rest.raised THEN <<>> ELSE r.value \o rest.value,
          calls   |-> r.calls \o rest.calls,
          lookups |-> r.lookups \o rest.lookups]

\* handle_list_tools: the loop over self.connectors
RECURSIVE handle_list_tools(_, _)
handle_list_tools(conns, e) ==
    IF conns = <<>> THEN Ret(<<>>, <<>>, <<>>)
    ELSE IF ~Head(conns).is_enabled THEN handle_list_tools(Tail(conns), e)
    ELSE LET r == _get_connector_tools(Head(conns), e)
         IN  IF r.raised THEN r ELSE Extend(r, handle_list_tools(Tail(conns), e))

\* handle_list_resources: the loop over self.connectors
RECURSIVE handle_list_resources(_, _)
handle_list_resources(conns, e) ==
    IF conns = <<>> THEN Ret(<<>>, <<>>, <<>>)
    ELSE IF ~Head(conns).is_enabled THEN handle_list_resources(Tail(conns), e)
    ELSE LET r == _get_connector_resources(Head(conns), e)
         IN  IF r.raised THEN r ELSE Extend(r, handle_list_resources(Tail(conns), e))

\* MCPServer._execute_tool
_execute_tool(connector, action, e) ==
    LET connector_plugin == get_connector(connector.connector_type)
    IN  IF connector_plugin = <<>>
        THEN Ret(<<Text("Connector plugin not found", connector.connector_type)>>, <<>>, <<>>)
        ELSE
        LET cls == connector_plugin[1]
            cred == ResolveCredential(cls, connector, e)
        IN  IF cred.raised THEN Raise(<<>>, cred.lookups)
            ELSE IF PluginRaises(cls, connector, e)
            THEN Ret(<<Text("Error executing tool", action)>>,
                     <<RaisedCall("execute_tool", connector, cls, cred.value)>>,
                     cred.lookups)
            ELSE LET result == <<execute_tool(cls, action, cred.value, e)>>
                 IN  Ret(result,
                         <<Call("execute_tool", connector, cls, cred.value, result)>>,
                         cred.lookups)

\* MCPServer._read_connector_resource
_read_connector_resource(connector, path, e) ==
    LET connector_plugin == get_connector(connector.connector_type)
    IN  IF connector_plugin = <<>>
        THEN Ret(<<Text("Connector plugin not found", connector.connector_type)>>, <<>>, <<>>)
        ELSE
        LET cls == connector_plugin[1]
            cred == ResolveCredential(cls, connector, e)
        IN  IF cred.raised THEN Raise(<<>>, cred.lookups)
            ELSE IF PluginRaises(cls, connector, e)
            THEN Ret(<<TextUri("Error reading resource", path)>>,
                     <<RaisedCall("read_resource", connector, cls, cred.value)>>,
                     cred.lookups)
            ELSE LET result == <<read_resource(cls, path, cred.value, e)>>
                 IN  Ret(result,
                         <<Call("read_resource", connector, cls, cred.value, result)>>,
                         cred.lookups)

\* the call of self._execute_tool without the try/except around it
TryExecuteTool_NoExcept(connector, action, e) ==
    LET r == _execute_tool(connector, action, e)
    IN  r

\* the try/except around self._execute_tool in handle_call_tool
TryExecuteTool(connector, action, e) ==
    LET r == _execute_tool(connector, action, e)
    IN  IF r.raised
        THEN Ret(<<Text("Error executing tool", action)>>, r.calls, r.lookups)
        ELSE r

\* handle_call_tool raising for an unmatched connector type, as
\* handle_read_resource does
handle_call_tool_RaisesNotFound(conns, tool_name, e) ==
    LET parts == SplitName(tool_name)
    IN  IF Len(parts) < 2
        THEN Ret(<<Text("Invalid tool name format", tool_name)>>, <<>>, <<>>)
        ELSE
        LET connector == FindConnector(conns, parts[1])
        IN  IF connector = <<>> THEN Raise(<<>>, <<>>)
            ELSE TryExecuteTool(connector[1], parts[2], e)

\* handle_call_tool
handle_call_tool(conns, tool_name, e) ==
    LET parts == SplitName(tool_name)
    IN  IF Len(parts) < 2
        THEN Ret(<<Text("Invalid tool name format", tool_name)>>, <<>>, <<>>)
        ELSE
        LET connector_type_str == parts[1]
            action == parts[2]
            connector == FindConnector(conns, connector_type_str)
        IN  IF connector = <<>>
            THEN Ret(<<Text("Connector not found or not enabled", connector_type_str)>>,
                     <<>>, <<>>)
            ELSE TryExecuteTool(connector[1], action, e)

\* handle_read_resource: every exception of the body, the failed unpacking
\* of the split and "Connector not found" included, is raised again as
\* ValueError("Error reading resource ...")
handle_read_resource(conns, uri, e) ==
    LET parts == SplitUri(uri)
    IN  IF Len(parts) # 2 THEN Raise(<<>>, <<>>)
        ELSE
        LET scheme == parts[1]
            path == parts[2]
            connector == FindConnector(conns, scheme)
        IN  IF connector = <<>> THEN Raise(<<>>, <<>>)
            ELSE _read_connector_resource(connector[1], path, e)

----------------------------------------------------------------------------
(* Requests *)

\* the transport bindings that construct a dispatcher and initialize it
Bindings == {"websocket", "http", "sse", "info"}

\* tool names a client sends: every name a modelled plugin lists, a name of
\* a type the tenant cannot have, an unknown action, a name without '_'
ToolNames ==
    {t.about : t \in Range(get_tools("GitHubConnector", <<>>))}
    \cup {t.about : t \in Range(get_tools("GoogleDocsConnector", <<>>))}
    \cup {Head(get_tools("JiraConnector", <<>>)).about}
    \cup {<<"gitlab", "list", "projects">>, <<"github", "ping">>, <<"ping">>}

\* URIs a client sends: the resources the modelled plugins list, a scheme
\* the tenant cannot have, a URI without "://"
Uris ==
    {ResourceUri("GitHubConnector"), ResourceUri("GoogleDocsConnector"),
     <<NOTION, <<"page/abc">>>>, <<<<"nouri">>>>}

\* the last operation served: the method, its argument (a binding, a tool
\* name or a URI), whether the handler raised, what it returned, the plugin
\* calls and the credential lookups it made. ok is initialize's result.
NoOp ==
    [op |-> "none", arg |-> <<>>, uri |-> <<>>, ok |-> TRUE, raised |-> FALSE,
     value |-> <<>>, calls |-> <<>>, lookups |-> <<>>]

Served(op, arg, uri, r) ==
    [op |-> op, arg |-> arg, uri |-> uri, ok |-> ~r.raised, raised |-> r.raised,
     value |-> r.value, calls |-> r.calls, lookups |-> r.lookups]

Initialized(binding, ok) ==
    [op |-> "initialize", arg |-> <<binding>>, uri |-> <<>>, ok |-> ok,
     raised |-> FALSE, value |-> <<>>, calls |-> <<>>, lookups |-> <<>>]

----------------------------------------------------------------------------
(* The SSE stream, before it starts *)

\* pc is the position of event_stream, task the state of sse_task,
\* cancel_called whether sse_task.cancel() has been called, queue the
\* message_queue, put every message the producer has queued, events what
\* the generator has yielded to the peer
NoStream ==
    [pc |-> "start", task |-> "none", cancel_called |-> FALSE,
     queue |-> <<>>, put |-> <<>>, events |-> <<>>, client |-> "connected",
     raised |-> FALSE]

----------------------------------------------------------------------------
(* The HTTP binding, the admin API and the CLI session storage, before use *)

\* no body has been posted to mcp_http
NoHttp == [requests |-> <<>>, responses |-> <<>>]

\* no admin operation has been made
NoAdmin == [op |-> "none", connector_type |-> <<>>, outcome |-> "none"]

\* the session ids the CLI polls with, and the results stored for them
SessionIds == {"s1", "s2"}

SessionData == {"success", "error"}

\* CLISessionStorage.__init__: no session. now is the clock time.time()
\* reads; op, session_id, delete_after_read and result are the last call and
\* what it returned, count the number cleanup_all_expired or get_stats
\* returned; pending is, for each id, the entry of the last store that
\* neither a get with delete_after_read nor a delete has followed
NoSessions ==
    [_sessions |-> [sid \in SessionIds |-> <<>>], now |-> 0,
     pending |-> [sid \in SessionIds |-> <<>>],
     op |-> "none", session_id |-> "", delete_after_read |-> TRUE, result |-> <<>>,
     count |-> 0]

\* the WebSocket connections of the model. Of each: pc is the position of
\* its handler ("none" before mcp_websocket accepts it), received the number
\* of frames the client has sent, inbox the frames not yet read, started the
\* requests whose dispatch has begun and sent the replies written, in order
Connections == {"c1", "c2"}

NoConnections ==
    [c \in Connections |->
        [pc |-> "none", received |-> 0, inbox |-> <<>>, started |-> <<>>, sent |-> <<>>]]

\* the toggle_connector requests of the model. Of each: pc is "idle" before
\* it arrives, "read" between its select and its update, "done" after its
\* commit, "not_found" after a 404; connector_type names the row, new_status
\* is the local variable
ToggleRequests == {"r1", "r2", "r3"}

NoToggles ==
    [r \in ToggleRequests |->
        [pc |-> "idle", connector_type |-> <<>>, new_status |-> FALSE]]

\* the threads that call CLISessionStorage. _lock is the thread that holds
\* the Lock ("" when it is free); of each thread: pc is its position in the
\* method it runs, op and data the call it makes, session the local variable
\* of get, result what its last call returned, raised whether it raised
Threads == {"T1", "T2"}

NoThreads ==
    [_lock |-> "",
     thread |-> [t \in Threads |->
                    [pc |-> "idle", op |-> "none", data |-> <<>>, session |-> <<>>,
                     result |-> <<>>, raised |-> FALSE]]]

----------------------------------------------------------------------------
(* Actions of the dispatcher and of its collaborators *)

\* MCPServer.__init__
MCPServer(tenant_slug) ==
    [tenant_slug |-> tenant_slug, tenant |-> <<>>, connectors |-> <<>>]

\* MCPServer._get_tenant: scalar_one_or_none over the unique slug
_get_tenant(tenant_slug) ==
    LET rows == {t \in tenants : t.slug = tenant_slug}
    IN  IF rows = {} THEN <<>> ELSE <<CHOOSE t \in rows : TRUE>>

\* the query without its criterion on Connector.tenant_id
_get_tenant_connectors_AllTenants(tenant_id) ==
    {c \in connectors : c.is_enabled}

\* MCPServer._get_tenant_connectors: the rows the query selects
_get_tenant_connectors(tenant_id) ==
    {c \in connectors : c.tenant_id = tenant_id /\ c.is_enabled}

\* a transport accepts a connection and constructs its dispatcher
NewSession(tenant_slug) ==
    /\ server' = MCPServer(tenant_slug)
    /\ phase' = "new"
    /\ last' = NoOp
    /\ UNCHANGED <<dbVars, registry, sse, apiVars>>

\* initialize without the `not tenant.is_active` test
initialize_IgnoresIsActive(binding) ==
    /\ phase = "new"
    /\ LET tenant == _get_tenant(server.tenant_slug)
       IN  IF tenant = <<>>
           THEN /\ phase' = "failed"
                /\ server' = server
                /\ last' = Initialized(binding, FALSE)
           ELSE \E loaded \in Orderings(_get_tenant_connectors(tenant[1].id)) :
                /\ phase' = "ready"
                /\ server' = [server EXCEPT !.tenant = tenant, !.connectors = loaded]
                /\ last' = Initialized(binding, TRUE)
    /\ UNCHANGED <<dbVars, registry, sse, apiVars>>

\* initialize loading the connectors before it tests the tenant
initialize_LoadsBeforeCheck(binding) ==
    /\ phase = "new"
    /\ LET tenant == _get_tenant(server.tenant_slug)
       IN  IF tenant = <<>>
           THEN /\ phase' = "failed"
                /\ server' = server
                /\ last' = Initialized(binding, FALSE)
           ELSE \E loaded \in Orderings(_get_tenant_connectors(tenant[1].id)) :
                /\ phase' = IF tenant[1].is_active THEN "ready" ELSE "failed"
                /\ server' = [server EXCEPT !.tenant = tenant, !.connectors = loaded]
                /\ last' = Initialized(binding, tenant[1].is_active)
    /\ UNCHANGED <<dbVars, registry, sse, apiVars>>

\* MCPServer.initialize, called by the binding
initialize(binding) ==
    /\ phase = "new"
    /\ LET tenant == _get_tenant(server.tenant_slug)
       IN  IF tenant = <<>> \/ ~tenant[1].is_active
           THEN /\ phase' = "failed"
                /\ server' = server
                /\ last' = Initialized(binding, FALSE)
           ELSE \E loaded \in Orderings(_get_tenant_connectors(tenant[1].id)) :
                /\ phase' = "ready"
                /\ server' = [server EXCEPT !.tenant = tenant, !.connectors = loaded]
                /\ last' = Initialized(binding, TRUE)
    /\ UNCHANGED <<dbVars, registry, sse, apiVars>>

\* tools/list answered from the connectors table as it is now
ListTools_ReadsTable(e) ==
    /\ \E loaded \in Orderings({c \in connectors : c.is_enabled}) :
        last' = Served("tools/list", <<>>, <<>>, handle_list_tools(loaded, e))
    /\ UNCHANGED <<dbVars, registry, server, phase, sse, apiVars>>

\* tools/list
ListTools(e) ==
    /\ last' = Served("tools/list", <<>>, <<>>, handle_list_tools(server.connectors, e))
    /\ UNCHANGED <<dbVars, registry, server, phase, sse, apiVars>>

\* tools/call
CallTool(tool_name, e) ==
    /\ last' = Served("tools/call", tool_name, <<>>,
                      handle_call_tool(server.connectors, tool_name, e))
    /\ UNCHANGED <<dbVars, registry, server, phase, sse, apiVars>>

\* resources/list
ListResources(e) ==
    /\ last' = Served("resources/list", <<>>, <<>>,
                      handle_list_resources(server.connectors, e))
    /\ UNCHANGED <<dbVars, registry, server, phase, sse, apiVars>>

\* resources/read
ReadResource(uri, e) ==
    /\ last' = Served("resources/read", <<>>, uri,
                      handle_read_resource(server.connectors, uri, e))
    /\ UNCHANGED <<dbVars, registry, server, phase, sse, apiVars>>

\* the credential rows of a tenant and provider
CredsOf(tenant_id, provider) ==
    {c \in CredRows : c.tenant_id = tenant_id /\ c.provider = provider}

\* the row oauth_callback writes: is_active=True, expires_at in the future
FreshCred(tenant_id, provider) ==
    [tenant_id |-> tenant_id, provider |-> provider,
     is_active |-> TRUE, is_expired |-> FALSE]

\* oauth_callback, `if existing:` the provider user's row is updated
oauth_callback_update(tenant_slug, provider) ==
    /\ _get_tenant(tenant_slug) # <<>>
    /\ LET tenant == _get_tenant(tenant_slug)[1]
           fresh == FreshCred(tenant.id, provider)
       IN  \E existing \in CredsOf(tenant.id, provider) :
            /\ oauth_credentials[existing] > 0
            /\ oauth_credentials' =
                 IF existing = fresh THEN oauth_credentials
                 ELSE [oauth_credentials EXCEPT
                          ![existing] = @ - 1, ![fresh] = @ + 1]
    /\ UNCHANGED <<tenants, connectors, registry, server, phase, last, sse, apiVars>>

\* oauth_callback, `else:` a row is created for a new provider user
oauth_callback_create(tenant_slug, provider) ==
    /\ _get_tenant(tenant_slug) # <<>>
    /\ LET tenant == _get_tenant(tenant_slug)[1]
           fresh == FreshCred(tenant.id, provider)
       IN  /\ RowCount(oauth_credentials, CredsOf(tenant.id, provider)) < MaxCreds
           /\ oauth_credentials' = [oauth_credentials EXCEPT ![fresh] = @ + 1]
    /\ UNCHANGED <<tenants, connectors, registry, server, phase, last, sse, apiVars>>

\* revoke_oauth: deletes the credentials of the tenant and provider
revoke_oauth(tenant_slug, provider) ==
    /\ _get_tenant(tenant_slug) # <<>>
    /\ LET tenant == _get_tenant(tenant_slug)[1]
       IN  oauth_credentials' =
               [c \in CredRows |->
                   IF c \in CredsOf(tenant.id, provider) THEN 0
                   ELSE oauth_credentials[c]]
    /\ UNCHANGED <<tenants, connectors, registry, server, phase, last, sse, apiVars>>

\* time passes the expires_at that oauth_callback stored with a credential
TokenExpires(c) ==
    /\ oauth_credentials[c] > 0
    /\ ~c.is_expired
    /\ oauth_credentials' =
           [oauth_credentials EXCEPT
               ![c] = @ - 1, ![[c EXCEPT !.is_expired = TRUE]] = @ + 1]
    /\ UNCHANGED <<tenants, connectors, registry, server, phase, last, sse, apiVars>>

\* connector_registry.register(connector_type, connector_class)
Register(connector_type, connector_class) ==
    /\ registry' = register(registry, connector_type, connector_class)
    /\ UNCHANGED <<dbVars, server, phase, last, sse, apiVars>>

\* a tenant's rows, before the first credential is stored for it
Init ==
    /\ tenants \in {{t} : t \in TenantRows}
    /\ connectors \in {S \in SUBSET ConnectorRows : uq_tenant_connector_type(S)}
    /\ oauth_credentials = [c \in CredRows |-> 0]
    /\ registry = ShippedRegistry
    /\ server \in {MCPServer(slug) : slug \in Slugs}
    /\ phase = "new"
    /\ last = NoOp
    /\ sse = NoStream
    /\ http = NoHttp
    /\ admin = NoAdmin
    /\ cli = NoSessions
    /\ ws = NoConnections
    /\ toggles = NoToggles
    /\ threads = NoThreads

\* sessions, requests and plugin registration
Next ==
    \/ \E slug \in Slugs : NewSession(slug)
    \/ \E b \in Bindings : initialize(b)
    \/ \E e \in EnvOf(server.connectors) : ListTools(e)
    \/ \E n \in ToolNames, e \in EnvOf(server.connectors) : CallTool(n, e)
    \/ \E e \in EnvOf(server.connectors) : ListResources(e)
    \/ \E u \in Uris, e \in EnvOf(server.connectors) : ReadResource(u, e)
    \/ Register(GOOGLE_DOCS, "GoogleDocsConnector")

Spec == Init /\ [][Next]_vars

\* an active tenant whose connectors are of the type the credentials are
\* stored for, with any stored mix of credentials
InitCreds ==
    /\ tenants = {[id |-> "t1", slug |-> "acme", is_active |-> TRUE]}
    /\ connectors \in {S \in SUBSET ConnectorRows :
                          \A c \in S : c.connector_type = GITHUB}
    /\ oauth_credentials \in CredTables
    /\ registry = ShippedRegistry
    /\ server = MCPServer("acme")
    /\ phase = "new"
    /\ last = NoOp
    /\ sse = NoStream
    /\ http = NoHttp
    /\ admin = NoAdmin
    /\ cli = NoSessions
    /\ ws = NoConnections
    /\ toggles = NoToggles
    /\ threads = NoThreads

\* sessions and requests, while credentials are stored, revoked and expire
NextCreds ==
    \/ NewSession("acme")
    \/ \E b \in Bindings : initialize(b)
    \/ \E e \in EnvOf(server.connectors) : ListTools(e)
    \/ \E n \in ToolNames, e \in EnvOf(server.connectors) : CallTool(n, e)
    \/ \E e \in EnvOf(server.connectors) : ListResources(e)
    \/ \E u \in Uris, e \in EnvOf(server.connectors) : ReadResource(u, e)
    \/ oauth_callback_update("acme", GITHUB)
    \/ oauth_callback_create("acme", GITHUB)
    \/ revoke_oauth("acme", GITHUB)
    \/ \E c \in CredRows : TokenExpires(c)

SpecCreds == InitCreds /\ [][NextCreds]_vars

----------------------------------------------------------------------------
(* The SSE binding: mcp_sse.event_stream and the task it starts *)

\* a message the producer queues: a JSON-RPC object, with an "error" key or
\* without one
Messages(k) == {[id |-> k, error |-> b] : b \in BOOLEAN}

\* the event a dequeued message is wrapped in
EventOf(message) ==
    [event |-> IF message.error THEN "error" ELSE "message", data |-> message]

\* where the generator continues when the peer asks for the next chunk
\* after a yield: the error event is followed by break, the message event
\* by the next turn of the loop
AfterYield_NoBreak(pc) == "get"

AfterYield(pc) == IF pc = "yielded_error" THEN "finally" ELSE "get"

\* the first lines of event_stream: the queue is created and handle_sse is
\* started as a task
StartStream ==
    /\ sse.pc = "start"
    /\ sse.client = "connected"
    /\ sse' = [sse EXCEPT !.pc = "get", !.task = "running"]
    /\ UNCHANGED <<dbVars, registry, server, phase, last, apiVars>>

\* asyncio.Queue() is built without a maxsize: 0, a queue of any length
maxsize == 0

\* Queue.full: never true for a maxsize of 0
full(queue) == maxsize > 0 /\ Len(queue) >= maxsize

\* transport.handle_sse puts a message on the queue, which waits only while
\* the queue is full; nothing keeps a producer from doing so while it handles
\* its cancellation
ProducerPut(message) ==
    /\ sse.task = "running"
    /\ Len(sse.put) < MaxMsgs
    /\ ~full(sse.queue)
    /\ sse' = [sse EXCEPT !.queue = Append(@, message), !.put = Append(@, message)]
    /\ UNCHANGED <<dbVars, registry, server, phase, last, apiVars>>

\* transport.handle_sse returns, or raises an exception of its own
ProducerEnds(outcome) ==
    /\ sse.task = "running"
    /\ sse' = [sse EXCEPT !.task = outcome]
    /\ UNCHANGED <<dbVars, registry, server, phase, last, apiVars>>

\* the cancelled task is resumed with CancelledError and ends
ProducerCancelled ==
    /\ sse.task = "running"
    /\ sse.cancel_called
    /\ sse' = [sse EXCEPT !.task = "cancelled"]
    /\ UNCHANGED <<dbVars, registry, server, phase, last, apiVars>>

\* message_queue.get() returns and the message is yielded as an event
GetMessage ==
    /\ sse.pc = "get"
    /\ sse.client = "connected"
    /\ sse.queue # <<>>
    /\ LET message == Head(sse.queue)
       IN  sse' = [sse EXCEPT !.queue = Tail(@),
                              !.events = Append(@, EventOf(message)),
                              !.pc = IF message.error THEN "yielded_error"
                                     ELSE "yielded"]
    /\ UNCHANGED <<dbVars, registry, server, phase, last, apiVars>>

\* the response asks the generator for its next chunk
Resume ==
    /\ sse.pc \in {"yielded", "yielded_error"}
    /\ sse.client = "connected"
    /\ sse' = [sse EXCEPT !.pc = AfterYield(sse.pc)]
    /\ UNCHANGED <<dbVars, registry, server, phase, last, apiVars>>

\* the client disconnects, or the stream is cancelled: a generator that is
\* not started never runs; one waiting in get() receives CancelledError,
\* one suspended in a yield is closed, and both go to the finally block;
\* one already there goes on waiting for the task
Disconnect ==
    /\ sse.client = "connected"
    /\ sse.pc # "done"
    /\ sse' = [sse EXCEPT !.client = "disconnected",
                          !.pc = IF @ = "start" THEN "done"
                                 ELSE IF @ \in {"get", "yielded", "yielded_error"}
                                      THEN "finally" ELSE @]
    /\ UNCHANGED <<dbVars, registry, server, phase, last, apiVars>>

\* a finally block that releases the stream without cancelling the task
Finally_NoCancel ==
    /\ sse.pc = "finally"
    /\ sse' = [sse EXCEPT !.pc = "done"]
    /\ UNCHANGED <<dbVars, registry, server, phase, last, apiVars>>

\* finally: sse_task.cancel()
Finally ==
    /\ sse.pc = "finally"
    /\ sse' = [sse EXCEPT !.cancel_called = TRUE, !.pc = "await_task"]
    /\ UNCHANGED <<dbVars, registry, server, phase, last, apiVars>>

\* finally: await sse_task returns once the task has ended; CancelledError
\* is swallowed, an exception of the task leaves the generator
AwaitTask ==
    /\ sse.pc = "await_task"
    /\ sse.task # "running"
    /\ sse' = [sse EXCEPT !.pc = "done", !.raised = (sse.task = "failed")]
    /\ UNCHANGED <<dbVars, registry, server, phase, last, apiVars>>

InitSSE ==
    /\ tenants = {[id |-> "t1", slug |-> "acme", is_active |-> TRUE]}
    /\ connectors = {}
    /\ oauth_credentials = [c \in CredRows |-> 0]
    /\ registry = ShippedRegistry
    /\ server = MCPServer("acme")
    /\ phase = "new"
    /\ last = NoOp
    /\ sse = NoStream
    /\ http = NoHttp
    /\ admin = NoAdmin
    /\ cli = NoSessions
    /\ ws = NoConnections
    /\ toggles = NoToggles
    /\ threads = NoThreads

NextSSE ==
    \/ StartStream
    \/ \E m \in Messages(Len(sse.put) + 1) : ProducerPut(m)
    \/ \E outcome \in {"finished", "failed"} : ProducerEnds(outcome)
    \/ ProducerCancelled
    \/ GetMessage
    \/ Resume
    \/ Disconnect
    \/ Finally
    \/ AwaitTask

SpecSSE == InitSSE /\ [][NextSSE]_vars

\* the event loop runs every task that is ready: the generator, once the
\* response asks for a chunk, and the producer task. What the client and the
\* code of the producer choose to do (disconnect, put, end) is not forced
SpecSSEFair ==
    /\ SpecSSE
    /\ WF_vars(StartStream)
    /\ WF_vars(GetMessage)
    /\ WF_vars(Resume)
    /\ WF_vars(Finally)
    /\ WF_vars(AwaitTask)
    /\ WF_vars(ProducerCancelled)

----------------------------------------------------------------------------
(* The single-shot HTTP binding: mcp_http *)

\* bodies a client posts: an empty body, text that is not JSON, bytes that
\* are not UTF-8, a notification (no id) and a request (with an id)
Bodies == {"empty", "not_json", "not_utf8", "notification", "request"}

\* await request.json(): json.loads of the body's bytes. It returns the
\* message, raises json.JSONDecodeError for text that is not JSON, and raises
\* UnicodeDecodeError, which is no JSONDecodeError, for bytes it cannot decode
request_json(body) ==
    CASE body \in {"empty", "not_json"} -> [raised |-> "JSONDecodeError", message |-> <<>>]
      [] body = "not_utf8" -> [raised |-> "UnicodeDecodeError", message |-> <<>>]
      [] body = "notification" ->
            [raised |-> "", message |-> <<[id |-> <<>>, method |-> "notifications/initialized"]>>]
      [] body = "request" ->
            [raised |-> "", message |-> <<[id |-> <<"1">>, method |-> "tools/list"]>>]

\* transport.handle_http_message: None for a notification, the reply of the
\* dispatcher for a request
handle_http_message(message) ==
    IF message.id = <<>> THEN <<>>
    ELSE <<[id |-> message.id, method |-> message.method]>>

\* the response to one posted body; dispatched tells whether
\* handle_http_message was called
HttpResponse(status, body, dispatched) ==
    [status |-> status, body |-> body, dispatched |-> dispatched]

\* mcp_http; an exception that leaves the route is answered 500 by the
\* framework
mcp_http(body) ==
    LET parsed == request_json(body)
    IN  IF parsed.raised = "JSONDecodeError" THEN HttpResponse(400, <<>>, FALSE)
        ELSE IF parsed.raised # "" THEN HttpResponse(500, <<>>, FALSE)
        ELSE LET response == handle_http_message(parsed.message[1])
             IN  IF response = <<>> THEN HttpResponse(204, <<>>, TRUE)
                 ELSE HttpResponse(200, response, TRUE)

\* a client posts a body and receives the response
Post(body) ==
    /\ Len(http.requests) < MaxReqs
    /\ http' = [requests |-> Append(http.requests, body),
                responses |-> Append(http.responses, mcp_http(body))]
    /\ UNCHANGED <<dbVars, registry, server, phase, last, sse, admin, cli, taskVars>>

InitHTTP ==
    /\ tenants = {[id |-> "t1", slug |-> "acme", is_active |-> TRUE]}
    /\ connectors = {}
    /\ oauth_credentials = [c \in CredRows |-> 0]
    /\ registry = ShippedRegistry
    /\ server = MCPServer("acme")
    /\ phase = "new"
    /\ last = NoOp
    /\ sse = NoStream
    /\ http = NoHttp
    /\ admin = NoAdmin
    /\ cli = NoSessions
    /\ ws = NoConnections
    /\ toggles = NoToggles
    /\ threads = NoThreads

NextHTTP == \E body \in Bodies : Post(body)

SpecHTTP == InitHTTP /\ [][NextHTTP]_vars

----------------------------------------------------------------------------
(* The admin API over the connectors table *)

\* a request that meets no fault outside the dispatcher
Quiet == [db_fails |-> {}, raises |-> {}, api_ok |-> TRUE]

\* what the admin API answered: the operation, the connector type it named
\* and "ok", "not_found" (HTTPException 404) or "rejected" (IntegrityError)
Answered(op, connector_type, outcome) ==
    [op |-> op, connector_type |-> connector_type, outcome |-> outcome]

\* the rows that hold the key (tenant_id, connector_type) of a row
SameKey(rows, row) ==
    {r \in rows : r.tenant_id = row.tenant_id /\ r.connector_type = row.connector_type}

\* session.commit() on a table that has no unique constraint
session_commit_NoConstraint(kept, row) ==
    [raised |-> FALSE, rows |-> kept \cup {row}]

\* session.commit() of one written row next to the rows kept, under
\* uq_tenant_connector_type: a second row of the key raises IntegrityError
\* and get_db_session rolls the transaction back
session_commit(kept, row) ==
    IF SameKey(kept, row) # {}
    THEN [raised |-> TRUE, rows |-> {}]
    ELSE [raised |-> FALSE, rows |-> kept \cup {row}]

\* the row a connector_id of the path names: the model names a row by the
\* connector_type it holds when the request arrives
ConnectorById(tenant_id, connector_id) ==
    {c \in connectors : c.tenant_id = tenant_id /\ c.connector_type = connector_id}

\* POST /tenants/{tenant_slug}/connectors
create_connector(tenant_slug, connector_type) ==
    /\ LET tenant == _get_tenant(tenant_slug)
       IN  IF tenant = <<>>
           THEN /\ admin' = Answered("create_connector", connector_type, "not_found")
                /\ connectors' = connectors
           ELSE LET connector == [tenant_id |-> tenant[1].id,
                                  connector_type |-> connector_type,
                                  is_enabled |-> TRUE]
                    done == session_commit(connectors, connector)
                IN  IF done.raised
                    THEN /\ admin' = Answered("create_connector", connector_type, "rejected")
                         /\ connectors' = connectors
                    ELSE /\ admin' = Answered("create_connector", connector_type, "ok")
                         /\ connectors' = done.rows
    /\ UNCHANGED <<tenants, oauth_credentials, registry, server, phase, last, sse, http, cli, taskVars>>

\* PUT /tenants/{tenant_slug}/connectors/{connector_id}
update_connector(tenant_slug, connector_id, connector_type) ==
    /\ LET tenant == _get_tenant(tenant_slug)
           found == IF tenant = <<>> THEN {} ELSE ConnectorById(tenant[1].id, connector_id)
       IN  IF found = {}
           THEN /\ admin' = Answered("update_connector", connector_type, "not_found")
                /\ connectors' = connectors
           ELSE LET connector == CHOOSE c \in found : TRUE
                    done == session_commit(connectors \ {connector},
                                           [connector EXCEPT !.connector_type = connector_type])
                IN  IF done.raised
                    THEN /\ admin' = Answered("update_connector", connector_type, "rejected")
                         /\ connectors' = connectors
                    ELSE /\ admin' = Answered("update_connector", connector_type, "ok")
                         /\ connectors' = done.rows
    /\ UNCHANGED <<tenants, oauth_credentials, registry, server, phase, last, sse, http, cli, taskVars>>

\* DELETE /tenants/{tenant_slug}/connectors/{connector_id}
delete_connector(tenant_slug, connector_id) ==
    /\ LET tenant == _get_tenant(tenant_slug)
           found == IF tenant = <<>> THEN {} ELSE ConnectorById(tenant[1].id, connector_id)
       IN  IF found = {}
           THEN /\ admin' = Answered("delete_connector", connector_id, "not_found")
                /\ connectors' = connectors
           ELSE /\ admin' = Answered("delete_connector", connector_id, "ok")
                /\ connectors' = connectors \ found
    /\ UNCHANGED <<tenants, oauth_credentials, registry, server, phase, last, sse, http, cli, taskVars>>

\* PATCH /tenants/{tenant_slug}/connectors/{connector_id}/toggle
toggle_connector(tenant_slug, connector_id) ==
    /\ LET tenant == _get_tenant(tenant_slug)
           found == IF tenant = <<>> THEN {} ELSE ConnectorById(tenant[1].id, connector_id)
       IN  IF found = {}
           THEN /\ admin' = Answered("toggle_connector", connector_id, "not_found")
                /\ connectors' = connectors
           ELSE LET connector == CHOOSE c \in found : TRUE
                    new_status == ~connector.is_enabled
                    done == session_commit(connectors \ {connector},
                                           [connector EXCEPT !.is_enabled = new_status])
                IN  /\ admin' = Answered("toggle_connector", connector_id, "ok")
                    /\ connectors' = done.rows
    /\ UNCHANGED <<tenants, oauth_credentials, registry, server, phase, last, sse, http, cli, taskVars>>

\* the connector types the admin requests of the model name
AdminTypes == {GITHUB, JIRA}

\* the tool names and the URI the sessions of the model send between them
AdminToolNames ==
    {Head(get_tools("GitHubConnector", <<>>)).about,
     Head(get_tools("JiraConnector", <<>>)).about}

\* an active tenant without connectors
InitAdmin ==
    /\ tenants = {[id |-> "t1", slug |-> "acme", is_active |-> TRUE]}
    /\ connectors = {}
    /\ oauth_credentials = [c \in CredRows |-> 0]
    /\ registry = ShippedRegistry
    /\ server = MCPServer("acme")
    /\ phase = "new"
    /\ last = NoOp
    /\ sse = NoStream
    /\ http = NoHttp
    /\ admin = NoAdmin
    /\ cli = NoSessions
    /\ ws = NoConnections
    /\ toggles = NoToggles
    /\ threads = NoThreads

\* sessions of the tenant and their requests, interleaved with admin requests
NextAdmin ==
    \/ NewSession("acme")
    \/ initialize("http")
    \/ ListTools(Quiet)
    \/ \E n \in AdminToolNames : CallTool(n, Quiet)
    \/ ListResources(Quiet)
    \/ ReadResource(ResourceUri("GitHubConnector"), Quiet)
    \/ \E slug \in Slugs, T \in AdminTypes : create_connector(slug, T)
    \/ \E slug \in Slugs, id \in AdminTypes, T \in AdminTypes : update_connector(slug, id, T)
    \/ \E slug \in Slugs, id \in AdminTypes : delete_connector(slug, id)
    \/ \E slug \in Slugs, id \in AdminTypes : toggle_connector(slug, id)

SpecAdmin == InitAdmin /\ [][NextAdmin]_vars

----------------------------------------------------------------------------
(* Plugin methods called with every credential, next to a session *)

\* the plugins whose source is at hand
SrcPlugins == {"GitHubConnector", "NotionConnector", "ZoomConnector"}

\* Optional[OAuthCredential]
Credentials == {<<>>} \cup {<<c>> : c \in CredRows}

\* the connector row a plugin is called for
PluginConnector(cls) ==
    [tenant_id |-> "t1", connector_type |-> ToolPrefix(cls), is_enabled |-> TRUE]

\* the tool names given to execute_tool: the first of the plugin's chain and
\* one it does not know
PluginTools(cls) == Range(Prefix(ToolActions(cls), MaxTools)) \cup {<<"ping">>}

\* plugin.execute_tool(connector, tool_name, arguments, oauth_cred)
PluginExecuteTool(cls, tool_name, oauth_cred, e) ==
    /\ LET connector == PluginConnector(cls)
           result == <<execute_tool(cls, tool_name, oauth_cred, e)>>
           sent == api_requests(cls, tool_name, oauth_cred)
           requests == [i \in DOMAIN sent |->
                            Call("api_request", connector, cls, oauth_cred, <<>>)]
       IN  last' = Served("execute_tool", tool_name, <<>>,
                          Ret(result,
                              <<Call("execute_tool", connector, cls, oauth_cred, result)>>
                                  \o requests,
                              <<>>))
    /\ UNCHANGED <<dbVars, registry, server, phase, sse, apiVars>>

\* plugin.get_tools(connector, oauth_cred)
PluginGetTools(cls, oauth_cred) ==
    /\ LET tools == get_tools(cls, oauth_cred)
       IN  last' = Served("get_tools", <<>>, <<>>,
                          Ret(tools,
                              <<Call("get_tools", PluginConnector(cls), cls, oauth_cred, tools)>>,
                              <<>>))
    /\ UNCHANGED <<dbVars, registry, server, phase, sse, apiVars>>

\* plugin.validate_oauth_credential(oauth_cred); ok is what it returned
PluginValidate(cls, oauth_cred) ==
    /\ last' = [NoOp EXCEPT
                   !.op = "validate_oauth_credential",
                   !.ok = validate_oauth_credential(cls, oauth_cred),
                   !.calls = <<Call("validate_oauth_credential", PluginConnector(cls),
                                    cls, oauth_cred, <<>>)>>]
    /\ UNCHANGED <<dbVars, registry, server, phase, sse, apiVars>>

\* an active tenant with a GitHub connector and any credentials
InitPlugin ==
    /\ tenants = {[id |-> "t1", slug |-> "acme", is_active |-> TRUE]}
    /\ connectors = {[tenant_id |-> "t1", connector_type |-> GITHUB, is_enabled |-> TRUE]}
    /\ oauth_credentials \in CredTables
    /\ registry = ShippedRegistry
    /\ server = MCPServer("acme")
    /\ phase = "new"
    /\ last = NoOp
    /\ sse = NoStream
    /\ http = NoHttp
    /\ admin = NoAdmin
    /\ cli = NoSessions
    /\ ws = NoConnections
    /\ toggles = NoToggles
    /\ threads = NoThreads

\* direct calls of the plugin methods, and tools/call of a session
NextPlugin ==
    \/ NewSession("acme")
    \/ initialize("http")
    \/ \E n \in AdminToolNames, e \in EnvOf(server.connectors) : CallTool(n, e)
    \/ \E cls \in SrcPlugins, c \in Credentials, ok \in BOOLEAN :
        \E t \in PluginTools(cls) :
            PluginExecuteTool(cls, t, c, [Quiet EXCEPT !.api_ok = ok])
    \/ \E cls \in PluginClasses, c \in Credentials : PluginGetTools(cls, c)
    \/ \E cls \in PluginClasses, c \in Credentials : PluginValidate(cls, c)

SpecPlugin == InitPlugin /\ [][NextPlugin]_vars

----------------------------------------------------------------------------
(* The registry: registration and get_connector_for_config *)

\* connector_config.runtime_type: ConnectorRuntimeType.NATIVE or another
RuntimeTypes == {"native", "external"}

\* connector_config.runtime_command, an Optional[str]: None, the empty
\* string, text that is not JSON, the JSON of an empty list and of a command
RuntimeCommands == {<<>>, <<"">>, <<"not json">>, <<"[]">>, <<"[\"npx\"]">>}

\* the configurations given to get_connector_for_config
Configs ==
    [runtime_type : RuntimeTypes, runtime_command : RuntimeCommands,
     connector_type : {GITHUB, JIRA, GITLAB}]

\* json.loads of a runtime_command: whether it raises JSONDecodeError, and
\* whether the value it returns is truthy
json_loads(text) ==
    CASE text = "[\"npx\"]" -> [raised |-> FALSE, truthy |-> TRUE]
      [] text = "[]"        -> [raised |-> FALSE, truthy |-> FALSE]
      [] OTHER              -> [raised |-> TRUE, truthy |-> FALSE]

\* what get_connector_for_config does: it raises, or returns a plugin or None
Resolved(raised, plugin) == [raised |-> raised, plugin |-> plugin]

\* ConnectorRegistry.get_connector_for_config
get_connector_for_config(connector_config) ==
    IF connector_config.runtime_type # "native"
    THEN LET command ==
                 IF connector_config.runtime_command # <<>>
                    /\ connector_config.runtime_command[1] # ""
                 THEN json_loads(connector_config.runtime_command[1])
                 ELSE [raised |-> FALSE, truthy |-> FALSE]
         IN  IF command.raised THEN Resolved(TRUE, <<>>)
             ELSE IF ~command.truthy THEN Resolved(TRUE, <<>>)
             ELSE Resolved(FALSE, <<"GenericMCPConnector">>)
    ELSE Resolved(FALSE, get_connector(connector_config.connector_type))

\* a caller resolves the plugin of a configuration; arg is the runtime_type
\* followed by the runtime_command if there is one, the call holds the
\* connector type, the plugin returned ("" for None) and whether it raised
ResolveForConfig(connector_config) ==
    /\ LET r == get_connector_for_config(connector_config)
           row == [tenant_id |-> "t1",
                   connector_type |-> connector_config.connector_type,
                   is_enabled |-> TRUE]
           plugin == IF r.plugin = <<>> THEN "" ELSE r.plugin[1]
       IN  last' = [NoOp EXCEPT
                       !.op = "get_connector_for_config",
                       !.arg = <<connector_config.runtime_type>>
                                   \o connector_config.runtime_command,
                       !.ok = ~r.raised,
                       !.raised = r.raised,
                       !.calls = <<[Call("get_connector_for_config", row, plugin,
                                         <<>>, <<>>) EXCEPT !.raised = r.raised]>>]
    /\ UNCHANGED <<dbVars, registry, server, phase, sse, apiVars>>

\* the registry of a process before any plugin module is imported
InitRegistry ==
    /\ tenants = {[id |-> "t1", slug |-> "acme", is_active |-> TRUE]}
    /\ connectors = {}
    /\ oauth_credentials = [c \in CredRows |-> 0]
    /\ registry = EmptyRegistry
    /\ server = MCPServer("acme")
    /\ phase = "new"
    /\ last = NoOp
    /\ sse = NoStream
    /\ http = NoHttp
    /\ admin = NoAdmin
    /\ cli = NoSessions
    /\ ws = NoConnections
    /\ toggles = NoToggles
    /\ threads = NoThreads

\* registrations of the plugin classes under two types, and resolutions
NextRegistry ==
    \/ \E T \in {GITHUB, JIRA}, cls \in SrcPlugins : Register(T, cls)
    \/ \E config \in Configs : ResolveForConfig(config)

SpecRegistry == InitRegistry /\ [][NextRegistry]_vars

----------------------------------------------------------------------------
(* The CLI session storage *)

\* the expiry the storage is constructed with
expiry_seconds == 2

\* a cleanup that removes nothing
_cleanup_expired_KeepsAll(sessions, now) == sessions

\* _cleanup_expired: the sessions without those whose expires_at has passed
_cleanup_expired(sessions, now) ==
    [sid \in SessionIds |->
        IF sessions[sid] # <<>> /\ now > sessions[sid][1].expires_at
        THEN <<>> ELSE sessions[sid]]

\* CLISessionStorage.store: the sessions after it
store(sessions, now, session_id, data) ==
    _cleanup_expired(
        [sessions EXCEPT ![session_id] =
            <<[data |-> data, expires_at |-> now + expiry_seconds]>>],
        now)

\* a get that never deletes the entry it read
get_KeepsEntry(sessions, now, session_id, delete_after_read) ==
    LET session == sessions[session_id]
    IN  IF session = <<>> THEN [value |-> <<>>, _sessions |-> sessions]
        ELSE IF now > session[1].expires_at
        THEN [value |-> <<>>, _sessions |-> [sessions EXCEPT ![session_id] = <<>>]]
        ELSE [value |-> <<session[1].data>>, _sessions |-> sessions]

\* CLISessionStorage.get: what it returns (<<>> for None) and the sessions
\* after it
get(sessions, now, session_id, delete_after_read) ==
    LET session == sessions[session_id]
    IN  IF session = <<>> THEN [value |-> <<>>, _sessions |-> sessions]
        ELSE IF now > session[1].expires_at
        THEN [value |-> <<>>, _sessions |-> [sessions EXCEPT ![session_id] = <<>>]]
        ELSE [value |-> <<session[1].data>>,
              _sessions |-> IF delete_after_read
                            THEN [sessions EXCEPT ![session_id] = <<>>]
                            ELSE sessions]

\* the OAuth callback stores the result of a CLI session
Store(session_id, data) ==
    /\ cli' = [cli EXCEPT
                  !._sessions = store(cli._sessions, cli.now, session_id, data),
                  !.pending[session_id] =
                      <<[data |-> data, expires_at |-> cli.now + expiry_seconds]>>,
                  !.op = "store", !.session_id = session_id,
                  !.delete_after_read = TRUE, !.result = <<data>>]
    /\ UNCHANGED <<dbVars, registry, server, phase, last, sse, http, admin, taskVars>>

\* the CLI polls for the result of a session
Get(session_id, delete_after_read) ==
    /\ LET r == get(cli._sessions, cli.now, session_id, delete_after_read)
       IN  cli' = [cli EXCEPT
                      !._sessions = r._sessions,
                      !.pending[session_id] =
                          IF delete_after_read THEN <<>> ELSE cli.pending[session_id],
                      !.op = "get", !.session_id = session_id,
                      !.delete_after_read = delete_after_read, !.result = r.value]
    /\ UNCHANGED <<dbVars, registry, server, phase, last, sse, http, admin, taskVars>>

\* CLISessionStorage.delete
Delete(session_id) ==
    /\ cli' = [cli EXCEPT
                  !._sessions[session_id] = <<>>,
                  !.pending[session_id] = <<>>,
                  !.op = "delete", !.session_id = session_id,
                  !.delete_after_read = TRUE, !.result = <<>>]
    /\ UNCHANGED <<dbVars, registry, server, phase, last, sse, http, admin, taskVars>>

\* len(self._sessions)
len(sessions) == Cardinality({sid \in SessionIds : sessions[sid] # <<>>})

\* CLISessionStorage.cleanup_all_expired: before - after, and the sessions
\* after it
cleanup_all_expired(sessions, now) ==
    LET before == len(sessions)
        cleaned == _cleanup_expired(sessions, now)
        after == len(cleaned)
    IN  [value |-> before - after, _sessions |-> cleaned]

\* CLISessionStorage.get_stats: active_sessions, and the sessions after it
get_stats(sessions, now) ==
    LET cleaned == _cleanup_expired(sessions, now)
    IN  [value |-> len(cleaned), _sessions |-> cleaned]

\* a caller cleans the storage up
CleanupAllExpired ==
    /\ LET r == cleanup_all_expired(cli._sessions, cli.now)
       IN  cli' = [cli EXCEPT
                      !._sessions = r._sessions,
                      !.op = "cleanup_all_expired", !.session_id = "",
                      !.delete_after_read = TRUE, !.result = <<>>,
                      !.count = r.value]
    /\ UNCHANGED <<dbVars, registry, server, phase, last, sse, http, admin, taskVars>>

\* a caller asks for the statistics
GetStats ==
    /\ LET r == get_stats(cli._sessions, cli.now)
       IN  cli' = [cli EXCEPT
                      !._sessions = r._sessions,
                      !.op = "get_stats", !.session_id = "",
                      !.delete_after_read = TRUE, !.result = <<>>,
                      !.count = r.value]
    /\ UNCHANGED <<dbVars, registry, server, phase, last, sse, http, admin, taskVars>>

\* a second passes
Tick ==
    /\ cli.now < MaxTime
    /\ cli' = [cli EXCEPT !.now = cli.now + 1]
    /\ UNCHANGED <<dbVars, registry, server, phase, last, sse, http, admin, taskVars>>

InitCLI ==
    /\ tenants = {[id |-> "t1", slug |-> "acme", is_active |-> TRUE]}
    /\ connectors = {}
    /\ oauth_credentials = [c \in CredRows |-> 0]
    /\ registry = ShippedRegistry
    /\ server = MCPServer("acme")
    /\ phase = "new"
    /\ last = NoOp
    /\ sse = NoStream
    /\ http = NoHttp
    /\ admin = NoAdmin
    /\ cli = NoSessions
    /\ ws = NoConnections
    /\ toggles = NoToggles
    /\ threads = NoThreads

NextCLI ==
    \/ \E sid \in SessionIds, data \in SessionData : Store(sid, data)
    \/ \E sid \in SessionIds, flag \in BOOLEAN : Get(sid, flag)
    \/ \E sid \in SessionIds : Delete(sid)
    \/ CleanupAllExpired
    \/ GetStats
    \/ Tick

SpecCLI == InitCLI /\ [][NextCLI]_vars

----------------------------------------------------------------------------
(* The WebSocket binding: mcp_websocket and transport.handle_websocket *)

\* mcp_websocket: the connection is accepted, its transport is constructed
\* and handle_websocket is awaited in the task of the connection
mcp_websocket(c) ==
    /\ ws[c].pc = "none"
    /\ ws' = [ws EXCEPT ![c].pc = "receive"]
    /\ UNCHANGED <<dbVars, registry, server, phase, last, sse, http, admin, cli, toggles, threads>>

\* the client sends its next frame
ClientSends(c) ==
    /\ ws[c].pc \in {"receive", "dispatching"}
    /\ ws[c].received < MaxFrames
    /\ ws' = [ws EXCEPT ![c].received = @ + 1, ![c].inbox = Append(@, ws[c].received + 1)]
    /\ UNCHANGED <<dbVars, registry, server, phase, last, sse, http, admin, cli, toggles, threads>>

\* a handler that reads the next frame while a request is being dispatched
Receive_WhileDispatching(c) ==
    /\ ws[c].pc \in {"receive", "dispatching"}
    /\ ws[c].inbox # <<>>
    /\ ws' = [ws EXCEPT ![c].pc = "dispatching",
                        ![c].inbox = Tail(@),
                        ![c].started = Append(@, Head(ws[c].inbox))]
    /\ UNCHANGED <<dbVars, registry, server, phase, last, sse, http, admin, cli, toggles, threads>>

\* handle_websocket reads the next frame and begins to dispatch it
Receive(c) ==
    /\ ws[c].pc = "receive"
    /\ ws[c].inbox # <<>>
    /\ ws' = [ws EXCEPT ![c].pc = "dispatching",
                        ![c].inbox = Tail(@),
                        ![c].started = Append(@, Head(ws[c].inbox))]
    /\ UNCHANGED <<dbVars, registry, server, phase, last, sse, http, admin, cli, toggles, threads>>

\* the dispatch returns and handle_websocket writes the reply of the oldest
\* request that has none, then goes back to reading
Reply(c) ==
    /\ ws[c].pc = "dispatching"
    /\ Len(ws[c].sent) < Len(ws[c].started)
    /\ ws' = [ws EXCEPT ![c].pc = IF Len(ws[c].sent) + 1 = Len(ws[c].started)
                                  THEN "receive" ELSE "dispatching",
                        ![c].sent = Append(@, ws[c].started[Len(ws[c].sent) + 1])]
    /\ UNCHANGED <<dbVars, registry, server, phase, last, sse, http, admin, cli, toggles, threads>>

\* the peer disconnects and the handler ends
Close(c) ==
    /\ ws[c].pc \in {"receive", "dispatching"}
    /\ ws' = [ws EXCEPT ![c].pc = "closed"]
    /\ UNCHANGED <<dbVars, registry, server, phase, last, sse, http, admin, cli, toggles, threads>>

InitWS ==
    /\ tenants = {[id |-> "t1", slug |-> "acme", is_active |-> TRUE]}
    /\ connectors = {}
    /\ oauth_credentials = [c \in CredRows |-> 0]
    /\ registry = ShippedRegistry
    /\ server = MCPServer("acme")
    /\ phase = "new"
    /\ last = NoOp
    /\ sse = NoStream
    /\ http = NoHttp
    /\ admin = NoAdmin
    /\ cli = NoSessions
    /\ ws = NoConnections
    /\ toggles = NoToggles
    /\ threads = NoThreads

NextWS ==
    \E c \in Connections :
        \/ mcp_websocket(c)
        \/ ClientSends(c)
        \/ Receive(c)
        \/ Reply(c)
        \/ Close(c)

SpecWS == InitWS /\ [][NextWS]_vars

----------------------------------------------------------------------------
(* The handlers over any snapshot *)

\* the values the attribute MCPServer.connectors is given here: the rows of
\* a tenant in any order, enabled or not. initialize itself assigns enabled
\* rows only; the handlers test is_enabled again
Snapshots ==
    UNION {Orderings(S) : S \in {R \in SUBSET ConnectorRows : uq_tenant_connector_type(R)}}

\* a session of an active tenant that holds one of the snapshots
InitSnapshot ==
    /\ tenants = {[id |-> "t1", slug |-> "acme", is_active |-> TRUE]}
    /\ \E loaded \in Snapshots :
        /\ connectors = Range(loaded)
        /\ server = [MCPServer("acme") EXCEPT
                        !.tenant = <<[id |-> "t1", slug |-> "acme", is_active |-> TRUE]>>,
                        !.connectors = loaded]
    /\ oauth_credentials = [c \in CredRows |-> 0]
    /\ registry = ShippedRegistry
    /\ phase = "ready"
    /\ last = NoOp
    /\ sse = NoStream
    /\ http = NoHttp
    /\ admin = NoAdmin
    /\ cli = NoSessions
    /\ ws = NoConnections
    /\ toggles = NoToggles
    /\ threads = NoThreads

\* the requests of the session
NextSnapshot ==
    \/ \E e \in EnvOf(server.connectors) : ListTools(e)
    \/ \E n \in ToolNames, e \in EnvOf(server.connectors) : CallTool(n, e)
    \/ \E e \in EnvOf(server.connectors) : ListResources(e)
    \/ \E u \in Uris, e \in EnvOf(server.connectors) : ReadResource(u, e)

SpecSnapshot == InitSnapshot /\ [][NextSnapshot]_vars

----------------------------------------------------------------------------
(* A session of one tenant beside the data of another *)

\* the rows of the second tenant, "globex"
OtherConnectorRows ==
    [tenant_id : {"t2"}, connector_type : {GITHUB}, is_enabled : BOOLEAN]

OtherCredRows ==
    [tenant_id : {"t2"}, provider : {GITHUB}, is_active : BOOLEAN, is_expired : {FALSE}]

\* the credentials table with the rows of both tenants: each has no
\* credential or an active one that has not expired
AllCredTables ==
    {t \in [CredRows \cup OtherCredRows -> 0..1] :
        /\ RowCount(t, CredRows) <= 1
        /\ RowCount(t, OtherCredRows) <= 1
        /\ \A c \in CredRows \cup OtherCredRows : t[c] > 0 => (c.is_active /\ ~c.is_expired)}

\* two active tenants, each with connectors and credentials of its own, and
\* a session constructed for "acme"
InitTenants ==
    /\ tenants = {[id |-> "t1", slug |-> "acme", is_active |-> TRUE],
                  [id |-> "t2", slug |-> "globex", is_active |-> TRUE]}
    /\ \E own \in SUBSET {c \in ConnectorRows : c.connector_type \in {GITHUB, JIRA}},
          other \in SUBSET OtherConnectorRows :
        /\ uq_tenant_connector_type(own \cup other)
        /\ connectors = own \cup other
    /\ oauth_credentials \in AllCredTables
    /\ registry = ShippedRegistry
    /\ server = MCPServer("acme")
    /\ phase = "new"
    /\ last = NoOp
    /\ sse = NoStream
    /\ http = NoHttp
    /\ admin = NoAdmin
    /\ cli = NoSessions
    /\ ws = NoConnections
    /\ toggles = NoToggles
    /\ threads = NoThreads

\* the admin API is used for the other tenant: its connectors become rows
OtherTenantConnectors(rows) ==
    /\ uq_tenant_connector_type(rows)
    /\ connectors' = {c \in connectors : c.tenant_id # "t2"} \cup rows
    /\ connectors' # connectors
    /\ UNCHANGED <<tenants, oauth_credentials, registry, server, phase, last, sse, apiVars>>

\* the OAuth flow of the other tenant stores or removes a credential
OtherTenantCredentials(table) ==
    /\ \A c \in CredRows : table[c] = oauth_credentials[c]
    /\ oauth_credentials' = table
    /\ oauth_credentials' # oauth_credentials
    /\ UNCHANGED <<tenants, connectors, registry, server, phase, last, sse, apiVars>>

NextTenants ==
    \/ initialize("ws")
    \/ \E e \in EnvOf(server.connectors) : ListTools(e)
    \/ \E n \in ToolNames, e \in EnvOf(server.connectors) : CallTool(n, e)
    \/ \E e \in EnvOf(server.connectors) : ListResources(e)
    \/ \E u \in Uris, e \in EnvOf(server.connectors) : ReadResource(u, e)
    \/ \E rows \in SUBSET OtherConnectorRows : OtherTenantConnectors(rows)
    \/ \E table \in AllCredTables : OtherTenantCredentials(table)

SpecTenants == InitTenants /\ [][NextTenants]_vars

----------------------------------------------------------------------------
(* CLISessionStorage called from several threads *)

\* a lock that is given to every thread that asks
Lock_acquire_NoExclusion(_lock) == TRUE

\* Lock.acquire, entered by `with self._lock:`, goes on when the lock is free
Lock_acquire(_lock) == _lock = ""

\* the one session id the threads use
TheSession == "s1"

\* a thread calls get(session_id) or store(session_id, data)
ThreadCall(t, op, data) ==
    /\ threads.thread[t].pc \in {"idle", "returned"}
    /\ (op = "get") = (data = <<>>)
    /\ threads' = [threads EXCEPT !.thread[t] =
                      [pc |-> "acquire", op |-> op, data |-> data, session |-> <<>>,
                       result |-> <<>>, raised |-> FALSE]]
    /\ UNCHANGED <<dbVars, registry, server, phase, last, sse, http, admin, cli, ws, toggles>>

\* with self._lock:
Acquire(t) ==
    /\ threads.thread[t].pc = "acquire"
    /\ Lock_acquire(threads._lock)
    /\ threads' = [threads EXCEPT
                      !._lock = t,
                      !.thread[t].pc = IF threads.thread[t].op = "get"
                                       THEN "get_read" ELSE "store_assign"]
    /\ UNCHANGED <<dbVars, registry, server, phase, last, sse, http, admin, cli, ws, toggles>>

\* get: session = self._sessions.get(session_id)
GetRead(t) ==
    /\ threads.thread[t].pc = "get_read"
    /\ threads' = [threads EXCEPT
                      !.thread[t].session = cli._sessions[TheSession],
                      !.thread[t].pc = "get_finish"]
    /\ UNCHANGED <<dbVars, registry, server, phase, last, sse, http, admin, cli, ws, toggles>>

\* get, from `if not session:` to its return: del raises KeyError when the
\* entry is no longer in the dict
GetFinish(t) ==
    /\ threads.thread[t].pc = "get_finish"
    /\ LET session == threads.thread[t].session
           gone == cli._sessions[TheSession] = <<>>
       IN  IF session = <<>>
           THEN /\ threads' = [threads EXCEPT !.thread[t].pc = "release"]
                /\ cli' = cli
           ELSE /\ threads' = [threads EXCEPT
                      !.thread[t].pc = "release",
                      !.thread[t].raised = gone,
                      !.thread[t].result =
                          IF gone \/ cli.now > session[1].expires_at
                          THEN <<>> ELSE <<session[1].data>>]
                /\ cli' = [cli EXCEPT !._sessions[TheSession] = <<>>]
    /\ UNCHANGED <<dbVars, registry, server, phase, last, sse, http, admin, ws, toggles>>

\* store: self._sessions[session_id] = {...}, one assignment of a whole entry
StoreAssign(t) ==
    /\ threads.thread[t].pc = "store_assign"
    /\ cli' = [cli EXCEPT !._sessions[TheSession] =
                  <<[data |-> threads.thread[t].data[1],
                     expires_at |-> cli.now + expiry_seconds]>>]
    /\ threads' = [threads EXCEPT !.thread[t].pc = "store_cleanup"]
    /\ UNCHANGED <<dbVars, registry, server, phase, last, sse, http, admin, ws, toggles>>

\* store: self._cleanup_expired()
StoreCleanup(t) ==
    /\ threads.thread[t].pc = "store_cleanup"
    /\ cli' = [cli EXCEPT !._sessions = _cleanup_expired(cli._sessions, cli.now)]
    /\ threads' = [threads EXCEPT !.thread[t].pc = "release"]
    /\ UNCHANGED <<dbVars, registry, server, phase, last, sse, http, admin, ws, toggles>>

\* the end of the with block releases the lock, and the method returns or
\* lets its exception go
Release(t) ==
    /\ threads.thread[t].pc = "release"
    /\ threads' = [threads EXCEPT !._lock = "", !.thread[t].pc = "returned"]
    /\ UNCHANGED <<dbVars, registry, server, phase, last, sse, http, admin, cli, ws, toggles>>

\* the storage as constructed and threads that have called nothing
InitThreads == InitCLI

NextThreads ==
    \/ \E t \in Threads : ThreadCall(t, "get", <<>>)
    \/ \E t \in Threads, data \in SessionData : ThreadCall(t, "store", <<data>>)
    \/ \E t \in Threads : Acquire(t)
    \/ \E t \in Threads : GetRead(t)
    \/ \E t \in Threads : GetFinish(t)
    \/ \E t \in Threads : StoreAssign(t)
    \/ \E t \in Threads : StoreCleanup(t)
    \/ \E t \in Threads : Release(t)

SpecThreads == InitThreads /\ [][NextThreads]_vars

----------------------------------------------------------------------------
(* toggle_connector, request by request *)

\* the first half of toggle_connector: the tenant and the connector are
\* selected, HTTPException 404 is raised when one is missing, and new_status
\* is computed from the row that was read
ToggleSelect(r, tenant_slug, connector_id) ==
    /\ toggles[r].pc = "idle"
    /\ LET tenant == _get_tenant(tenant_slug)
           found == IF tenant = <<>> THEN {} ELSE ConnectorById(tenant[1].id, connector_id)
       IN  IF found = {}
           THEN toggles' = [toggles EXCEPT ![r] =
                    [pc |-> "not_found", connector_type |-> connector_id,
                     new_status |-> FALSE]]
           ELSE LET connector == CHOOSE c \in found : TRUE
                IN  toggles' = [toggles EXCEPT ![r] =
                        [pc |-> "read", connector_type |-> connector_id,
                         new_status |-> ~connector.is_enabled]]
    /\ UNCHANGED <<dbVars, registry, server, phase, last, sse, http, admin, cli, ws, threads>>

\* the second half: UPDATE connectors SET is_enabled = new_status WHERE id =
\* connector_id, and the commit
ToggleUpdate(r) ==
    /\ toggles[r].pc = "read"
    /\ connectors' =
        {IF c.connector_type = toggles[r].connector_type
         THEN [c EXCEPT !.is_enabled = toggles[r].new_status] ELSE c : c \in connectors}
    /\ toggles' = [toggles EXCEPT ![r].pc = "done"]
    /\ UNCHANGED <<tenants, oauth_credentials, registry, server, phase, last, sse, http, admin, cli, ws, threads>>

\* a tenant with one connector, enabled as create_connector leaves it
InitToggle ==
    /\ tenants = {[id |-> "t1", slug |-> "acme", is_active |-> TRUE]}
    /\ connectors = {[tenant_id |-> "t1", connector_type |-> GITHUB, is_enabled |-> TRUE]}
    /\ oauth_credentials = [c \in CredRows |-> 0]
    /\ registry = ShippedRegistry
    /\ server = MCPServer("acme")
    /\ phase = "new"
    /\ last = NoOp
    /\ sse = NoStream
    /\ http = NoHttp
    /\ admin = NoAdmin
    /\ cli = NoSessions
    /\ ws = NoConnections
    /\ toggles = NoToggles
    /\ threads = NoThreads

\* requests, each with a database session of its own, in any interleaving
NextToggle ==
    \/ \E r \in ToggleRequests, slug \in Slugs, id \in AdminTypes : ToggleSelect(r, slug, id)
    \/ \E r \in ToggleRequests : ToggleUpdate(r)

SpecToggle == InitToggle /\ [][NextToggle]_vars

----------------------------------------------------------------------------
(* Properties of the dispatcher, checked under Spec and SpecCreds *)

\* the credential rows of a pair that are stored and active
ActiveCreds(tenant_id, provider) ==
    {c \in CredsOf(tenant_id, provider) : oauth_credentials[c] > 0 /\ c.is_active}

\* the tenant a slug names is missing or has is_active = false
TenantRefused(tenant_slug) ==
    \A t \in tenants : t.slug = tenant_slug => ~t.is_active

\* the last operation is a request the dispatcher has just served in this
\* step; the tables and the registry are those the request read
JustServed(op) ==
    /\ last'.op = op
    /\ last' # last
    /\ UNCHANGED <<dbVars, registry, server, phase>>

\* C1: no call the dispatcher makes to a plugin (get_tools, get_resources,
\* execute_tool, read_resource) carries a credential that is inactive or
\* expired, whatever mix of credentials is stored for the tenant and provider.
C1_NoUnusableCredentialHandedOver ==
    \A i \in DOMAIN last.calls :
        LET c == last.calls[i].oauth_cred
        IN  c # <<>> => (c[1].is_active /\ ~c[1].is_expired)

\* a plugin that requires OAuth was called while the pair's stored
\* credentials were an inactive one and an expired one
C1_Witness ==
    /\ last.op = "tools/call"
    /\ \E i \in DOMAIN last.calls : requires_oauth(last.calls[i].plugin)
    /\ \E c \in CredsOf("t1", GITHUB) : oauth_credentials[c] > 0 /\ ~c.is_active
    /\ \E c \in CredsOf("t1", GITHUB) :
            oauth_credentials[c] > 0 /\ c.is_active /\ c.is_expired

\* C2: when the tenant named by the slug is missing or inactive, initialize
\* returns failure and, within it, no connector is loaded into the session,
\* no plugin is called and no credential is looked up, for every binding.
C2_RefusedTenantLoadsNothing ==
    [][(/\ phase = "new"
        /\ last'.op = "initialize"
        /\ TenantRefused(server.tenant_slug)) =>
            /\ last'.arg \in {<<b>> : b \in Bindings}
            /\ ~last'.ok
            /\ phase' = "failed"
            /\ server'.connectors = <<>>
            /\ server'.tenant = <<>>
            /\ last'.calls = <<>>
            /\ last'.lookups = <<>>]_vars

\* initialize through the SSE binding failed for an inactive tenant that
\* has an enabled connector
C2_Witness ==
    /\ last.op = "initialize"
    /\ last.arg = <<"sse">>
    /\ phase = "failed"
    /\ \E t \in tenants : t.slug = server.tenant_slug /\ ~t.is_active
    /\ \E c \in connectors : c.is_enabled

\* C3: in a ready session, a tools/call of a name that the preceding
\* tools/list returned is routed to the connector that emitted the name and
\* never answers "Connector not found or not enabled" or "Invalid tool name
\* format", for every connector type.
C3_ToolNameRoundTrip ==
    [][(/\ phase = "ready"
        /\ last.op = "tools/list"
        /\ ~last.raised
        /\ last'.op = "tools/call"
        /\ Tool(last'.arg) \in Range(last.value)) =>
            /\ ~last'.raised
            /\ \A k \in DOMAIN last'.value :
                   last'.value[k].text \notin
                       {"Connector not found or not enabled", "Invalid tool name format"}
            /\ \A i \in DOMAIN last'.calls :
                   \E j \in DOMAIN last.calls :
                       /\ last.calls[j].connector = last'.calls[i].connector
                       /\ Tool(last'.arg) \in Range(last.calls[j].returned)]_vars

\* C4: the credential lookup returns the active credential of the (tenant,
\* provider) pair whenever one is stored, so a tools/call on a requires_oauth
\* connector hands an active credential of the pair to execute_tool.
C4_ActiveCredentialResolved ==
    [][JustServed("tools/call") =>
        \A i \in DOMAIN last'.calls :
            LET call == last'.calls[i]
                active == ActiveCreds(call.connector.tenant_id,
                                      call.connector.connector_type)
            IN  (requires_oauth(call.plugin) /\ active # {}) =>
                    (call.oauth_cred # <<>> /\ call.oauth_cred[1] \in active)]_vars

\* the connector-type token of a name, the part before the first '_',
\* matches no enabled connector of the session
TokenUnmatched(n) == FindConnector(server.connectors, <<Head(n)>>) = <<>>

\* C5, as claimed: a tools/call whose connector-type token matches no
\* enabled connector of the session returns the text "Connector not found or
\* not enabled" in a successful reply and calls no plugin.
C5_UnmatchedTokenSaysNotFound ==
    (phase = "ready" /\ last.op = "tools/call" /\ TokenUnmatched(last.arg)) =>
        /\ ~last.raised
        /\ last.value =
             <<Text("Connector not found or not enabled", <<Head(last.arg)>>)>>
        /\ last.calls = <<>>

\* C5, amended: such a call returns a successful reply, calls no plugin,
\* looks up no credential and leaves the session as it was; its text is
\* "Connector not found or not enabled" when the name contains a '_' and
\* "Invalid tool name format" when it contains none.
C5_UnmatchedTokenIsApplicationError ==
    [][(last'.op = "tools/call" /\ FindConnector(server'.connectors, <<Head(last'.arg)>>) = <<>>) =>
        /\ ~last'.raised
        /\ last'.value =
             IF Len(last'.arg) < 2
             THEN <<Text("Invalid tool name format", last'.arg)>>
             ELSE <<Text("Connector not found or not enabled", <<Head(last'.arg)>>)>>
        /\ last'.calls = <<>>
        /\ last'.lookups = <<>>
        /\ phase' = phase /\ server' = server]_vars

\* a ready session with a connector answered "Connector not found or not
\* enabled" to a name of another type
C5_Witness ==
    /\ last.op = "tools/call"
    /\ phase = "ready"
    /\ server.connectors # <<>>
    /\ last.value = <<Text("Connector not found or not enabled", <<"gitlab">>)>>

\* an exception was raised while the request was served: by a credential
\* lookup or by a plugin call
FaultMet(served) ==
    \/ \E i \in DOMAIN served.lookups : served.lookups[i].raised
    \/ \E i \in DOMAIN served.calls : served.calls[i].raised

\* C6: an exception raised while serving tools/call for a matched connector,
\* by the credential lookup or by the plugin's execute_tool, is returned as
\* the text "Error executing tool" in a successful reply; it does not
\* propagate, and the session is left as it was.
C6_CallExceptionsBecomeText ==
    [][(/\ last'.op = "tools/call"
        /\ Len(last'.arg) >= 2
        /\ FindConnector(server'.connectors, <<Head(last'.arg)>>) # <<>>) =>
            /\ ~last'.raised
            /\ Len(last'.value) = 1
            /\ FaultMet(last') => last'.value[1].text = "Error executing tool"
            /\ phase' = phase /\ server' = server]_vars

\* a ready session answered "Error executing tool" after the credential
\* lookup raised, before any plugin call
C6_Witness ==
    /\ last.op = "tools/call"
    /\ phase = "ready"
    /\ ~last.raised
    /\ last.value[1].text = "Error executing tool"
    /\ \E i \in DOMAIN last.lookups : last.lookups[i].raised
    /\ last.calls = <<>>

\* what the plugin calls of a listing returned, concatenated
RECURSIVE Returned(_)
Returned(calls) ==
    IF calls = <<>> THEN <<>> ELSE Head(calls).returned \o Returned(Tail(calls))

\* C7: listing is fail-soft per connector: when a step for one enabled
\* connector fails (plugin lookup, credential lookup, the plugin raising),
\* that connector contributes nothing and tools/list and resources/list
\* still return the descriptors of the other enabled connectors: the call
\* does not fail, every enabled connector whose credential lookup did not
\* fail and that has a plugin is asked, and the result is what they returned.
C7_ListingIsFailSoft ==
    [][(JustServed("tools/list") \/ JustServed("resources/list")) =>
        /\ ~last'.raised
        /\ last'.value = Returned(last'.calls)
        /\ \A k \in DOMAIN server.connectors :
            LET c == server.connectors[k]
            IN  (/\ c.is_enabled
                 /\ get_connector(c.connector_type) # <<>>
                 /\ ~\E i \in DOMAIN last'.lookups :
                        /\ last'.lookups[i].raised
                        /\ last'.lookups[i].provider = c.connector_type) =>
                    \E i \in DOMAIN last'.calls : last'.calls[i].connector = c]_vars

\* C8: resources/read of a URI whose scheme matches no enabled connector of
\* the session returns an application-level error to the caller rather than
\* raising, and calls no plugin.
C8_UnknownSchemeIsApplicationError ==
    (/\ phase = "ready"
     /\ last.op = "resources/read"
     /\ Len(last.uri) = 2
     /\ FindConnector(server.connectors, last.uri[1]) = <<>>) =>
        /\ ~last.raised
        /\ last.calls = <<>>

----------------------------------------------------------------------------
(* Properties of the SSE binding, checked under SpecSSE *)

\* C9: when the client disconnects or the stream is cancelled at any point,
\* the producer task is cancelled and awaited before the stream handler
\* finishes; once the handler has finished the task is not running and
\* writes nothing more to the message queue.
C9_ProducerJoinedBeforeHandlerEnds ==
    [][(sse'.pc = "done" /\ sse'.task # "none") =>
        /\ sse'.cancel_called
        /\ sse'.task \in {"cancelled", "finished", "failed"}
        /\ sse.pc = "done" => (sse'.put = sse.put /\ sse'.queue = sse.queue)]_vars

\* the client left mid-stream, after an event and with a message still
\* queued; the handler has finished and the task ended by cancellation
C9_Witness ==
    /\ sse.pc = "done"
    /\ sse.client = "disconnected"
    /\ sse.task = "cancelled"
    /\ sse.events # <<>>
    /\ sse.queue # <<>>

\* C10: the events delivered are the queued messages in queue order, one
\* event each, nothing lost while it waits in the queue; an event is named
\* "error" when its message carries an error and "message" otherwise; the
\* error event is the last event of the stream, even when more messages
\* were queued behind it.
C10_EventsFollowQueueErrorLast ==
    /\ Len(sse.events) <= Len(sse.put)
    /\ sse.queue = SubSeq(sse.put, Len(sse.events) + 1, Len(sse.put))
    /\ \A i \in DOMAIN sse.events :
        /\ sse.events[i].data = sse.put[i]
        /\ sse.events[i].event = IF sse.put[i].error THEN "error" ELSE "message"
        /\ sse.events[i].event = "error" => i = Len(sse.events)

\* a message event, then an error event, then the end of the stream with
\* a message still queued behind the error
C10_Witness ==
    /\ sse.pc = "done"
    /\ Len(sse.events) = 2
    /\ sse.events[1].event = "message"
    /\ sse.events[2].event = "error"
    /\ sse.queue # <<>>

----------------------------------------------------------------------------
(* Properties of the HTTP binding, checked under SpecHTTP *)

\* C11: one posted body produces exactly one response: a notification yields
\* 204 with no body, a request yields one reply body, and a body that cannot
\* be parsed yields 400 without the dispatcher being invoked.
C11_OneBodyOneResponse ==
    /\ Len(http.responses) = Len(http.requests)
    /\ \A i \in DOMAIN http.responses :
        LET body == http.requests[i]
            response == http.responses[i]
        IN  /\ body = "notification" =>
                    (response.status = 204 /\ response.body = <<>>)
            /\ body = "request" =>
                    (response.status = 200 /\ Len(response.body) = 1)
            /\ body \in {"empty", "not_json", "not_utf8"} =>
                    (response.status = 400 /\ ~response.dispatched)

----------------------------------------------------------------------------
(* Properties of sessions next to the admin API, under SpecAdmin *)

\* the methods a session serves from its snapshot
RequestMethods == {"tools/list", "tools/call", "resources/list", "resources/read"}

\* the enabled connectors of the snapshot that have a plugin
Listable(conns) ==
    {c \in Range(conns) : c.is_enabled /\ get_connector(c.connector_type) # <<>>}

\* C12: once initialize succeeded, the connectors of the session and their
\* enabled flags stay what they were, whatever admin create, update, toggle
\* or delete requests come in between; every plugin call of a request is made
\* for a connector of that snapshot, tools/list asks each listable connector
\* of it, and initialize loads the enabled rows the table holds at that time.
C12_SessionWorksOnItsSnapshot ==
    [][/\ (phase = "ready" /\ phase' = "ready") => server' = server
       /\ admin' # admin => (server' = server /\ phase' = phase /\ last' = last)
       /\ (last'.op \in RequestMethods /\ last' # last) =>
            /\ \A i \in DOMAIN last'.calls :
                last'.calls[i].connector \in Range(server.connectors)
            /\ last'.op = "tools/list" =>
                {last'.calls[i].connector : i \in DOMAIN last'.calls}
                    = Listable(server.connectors)
       /\ (phase = "new" /\ phase' = "ready") =>
            Range(server'.connectors) = {c \in connectors : c.is_enabled}
      ]_vars

\* a ready session lists the tools of a connector that the table no longer
\* holds as the snapshot does, after an admin request succeeded
C12_Witness ==
    /\ phase = "ready"
    /\ admin.outcome = "ok"
    /\ last.op = "tools/list"
    /\ \E i \in DOMAIN last.calls : last.calls[i].connector \notin connectors
    /\ \E c \in connectors : c.is_enabled /\ c \notin Range(server.connectors)

\* C19: whatever admin create, update, toggle and delete requests are made,
\* no tenant has two connectors of one connector_type; the table changes only
\* in a request that succeeded, so a rejected one leaves it as it was, and no
\* step of the dispatcher writes the table.
C19_OneConnectorPerTypeAndTenant ==
    [][/\ uq_tenant_connector_type(connectors')
       /\ connectors' # connectors => (admin'.outcome = "ok" /\ last' = last)
       /\ (admin' # admin /\ admin'.outcome # "ok") => connectors' = connectors
      ]_vars

\* an update that would give the tenant a second connector of a type it holds
\* disabled has been rejected
C19_Witness ==
    /\ admin.outcome = "rejected"
    /\ admin.op = "update_connector"
    /\ Cardinality(connectors) = 2
    /\ \E c \in connectors : c.connector_type = admin.connector_type /\ ~c.is_enabled

----------------------------------------------------------------------------
(* Properties of the plugin methods, under SpecPlugin and Spec *)

\* the credential is absent, inactive or expired
Unusable(oauth_cred) ==
    oauth_cred = <<>> \/ ~oauth_cred[1].is_active \/ oauth_cred[1].is_expired

\* the calls of a plugin method the last operation made
CallsOf(method) ==
    {last.calls[i] : i \in {j \in DOMAIN last.calls : last.calls[j].method = method}}

\* C13: execute_tool of a plugin that requires OAuth, called with an absent,
\* inactive or expired credential, does not raise, returns the one text
\* "Invalid or expired" and sends no request to the third-party API; when the
\* call was made by tools/call, the handler returns that text and does not
\* raise.
C13_UnusableCredentialIsErrorText ==
    \A call \in CallsOf("execute_tool") :
        (requires_oauth(call.plugin) /\ Unusable(call.oauth_cred)) =>
            /\ ~call.raised
            /\ call.returned = <<Text("Error: Invalid or expired credentials", <<>>)>>
            /\ CallsOf("api_request") = {}
            /\ last.op = "tools/call" => (~last.raised /\ last.value = call.returned)

\* execute_tool has been called for a tool of its chain with a credential
\* that is active and expired
C13_Witness ==
    /\ last.op = "execute_tool"
    /\ \E call \in CallsOf("execute_tool") :
        /\ requires_oauth(call.plugin)
        /\ call.oauth_cred # <<>>
        /\ call.oauth_cred[1].is_active
        /\ call.oauth_cred[1].is_expired
        /\ last.arg \in Range(ToolActions(call.plugin))

\* C14: get_tools of a plugin that requires OAuth, called with an absent,
\* inactive or expired credential, returns the empty list; and tools/list of
\* a session whose connectors all require OAuth, none of them with a usable
\* credential, returns no tool.
C14_NoToolsWithoutUsableCredential ==
    /\ \A call \in CallsOf("get_tools") :
        (call.plugin \in SrcPlugins /\ requires_oauth(call.plugin)
            /\ Unusable(call.oauth_cred) /\ ~call.raised)
            => call.returned = <<>>
    /\ (/\ last.op = "tools/list"
        /\ ~last.raised
        /\ \A call \in CallsOf("get_tools") :
            call.plugin \in SrcPlugins /\ requires_oauth(call.plugin)
                /\ Unusable(call.oauth_cred))
        => last.value = <<>>

\* the name starts with '{connector_type}_'
HasTypePrefix(tool_name, connector_type) ==
    /\ Len(tool_name) > Len(connector_type)
    /\ Prefix(tool_name, Len(connector_type)) = connector_type

C16_ValidIffPresentActiveUnexpired ==
    last.op = "validate_oauth_credential" =>
        \A call \in CallsOf("validate_oauth_credential") :
            requires_oauth(call.plugin) =>
                /\ ~last.raised
                /\ ~call.raised
                /\ last.ok <=> (/\ call.oauth_cred # <<>>
                                /\ call.oauth_cred[1].is_active
                                /\ ~call.oauth_cred[1].is_expired)

\* the predicate has refused a credential that is active and expired
C16_Witness ==
    /\ last.op = "validate_oauth_credential"
    /\ ~last.ok
    /\ \E call \in CallsOf("validate_oauth_credential") :
        /\ requires_oauth(call.plugin)
        /\ call.oauth_cred # <<>>
        /\ call.oauth_cred[1].is_active
        /\ call.oauth_cred[1].is_expired

----------------------------------------------------------------------------
(* Properties of the registry, under SpecRegistry *)

MissingOrEmpty == {<<>>, <<"">>, <<"[]">>}

Unparsable == {<<"not json">>}

\* C18: get_connector_for_config raises, and returns no plugin, for an
\* external configuration whose runtime_command is missing, empty or not
\* parsable and for a native one whose connector type has no registered
\* plugin; otherwise it returns the generic adapter for an external
\* configuration and the registered instance for a native one.
C18_ResolveFailsOrReturnsPlugin ==
    [][(last'.op = "get_connector_for_config" /\ last' # last) =>
        \A i \in DOMAIN last'.calls :
            LET call == last'.calls[i]
                external == last'.arg[1] # "native"
                runtime_command == Tail(last'.arg)
                registered == get_connector(call.connector.connector_type)
                fails == IF external
                         THEN runtime_command \in MissingOrEmpty \cup Unparsable
                         ELSE registered = <<>>
            IN  IF fails THEN call.raised /\ call.plugin = ""
                ELSE /\ ~call.raised
                     /\ call.plugin = IF external THEN "GenericMCPConnector"
                                      ELSE registered[1]
      ]_vars

----------------------------------------------------------------------------
(* Properties of the CLI session storage, under SpecCLI *)

\* this step is a get of the id
Polled(sid) == cli'.op = "get" /\ cli'.session_id = sid /\ cli'.now = cli.now

\* this step is a store of the id
Stored(sid) == cli'.op = "store" /\ cli'.session_id = sid /\ cli'.now = cli.now

\* C20, as stated: after store(id, data) the first get(id) returns data and
\* every later get(id) returns None until id is stored again; get(id,
\* delete_after_read=False) returns data and leaves the entry and its expiry
\* unchanged; store on an existing id replaces its data.
C20_ResultsAreOneTime ==
    [][\A sid \in SessionIds :
        /\ (Polled(sid) /\ cli.pending[sid] # <<>>) =>
            /\ cli'.result = <<cli.pending[sid][1].data>>
            /\ ~cli'.delete_after_read => cli'._sessions[sid] = cli._sessions[sid]
        /\ (Polled(sid) /\ cli.pending[sid] = <<>>) => cli'.result = <<>>
        /\ Stored(sid) => cli'._sessions[sid][1].data = cli'.result[1]
      ]_vars

\* C20, amended: the same while the entry has not expired, that is while the
\* clock has not passed the time of the store plus expiry_seconds; a get of
\* an expired entry, with either flag, returns None and deletes the entry;
\* a store renews the expiry.
C20_ResultsAreOneTimeUntilExpiry ==
    [][\A sid \in SessionIds :
        /\ (Polled(sid) /\ cli.pending[sid] # <<>>) =>
            IF cli.now > cli.pending[sid][1].expires_at
            THEN cli'.result = <<>> /\ cli'._sessions[sid] = <<>>
            ELSE /\ cli'.result = <<cli.pending[sid][1].data>>
                 /\ cli'._sessions[sid] =
                        IF cli'.delete_after_read THEN <<>> ELSE cli._sessions[sid]
                 /\ ~cli'.delete_after_read => cli._sessions[sid] = cli.pending[sid]
        /\ (Polled(sid) /\ cli.pending[sid] = <<>>) => cli'.result = <<>>
        /\ Stored(sid) =>
            cli'._sessions[sid] =
                <<[data |-> cli'.result[1], expires_at |-> cli.now + expiry_seconds]>>
      ]_vars

\* a stored result has been read once, in the last second before it would
\* have expired at the earliest, and is gone
C20_Witness ==
    /\ cli.op = "get"
    /\ cli.delete_after_read
    /\ cli.result = <<"success">>
    /\ cli._sessions[cli.session_id] = <<>>
    /\ cli.now = expiry_seconds

\* the ids whose entry has expired at the time given
Expired(sessions, now) ==
    {sid \in SessionIds : sessions[sid] # <<>> /\ now > sessions[sid][1].expires_at}

\* this step is the call named, made at the time the clock shows
Called(op) == cli'.op = op /\ cli'.now = cli.now /\ cli'.pending = cli.pending

\* C21: a get issued more than expiry_seconds after the latest store of its
\* id returns None and leaves no entry of the id; cleanup_all_expired
\* removes the expired entries and no other, returns their number, and a get
\* of each entry it left returns the data; get_stats returns the number of
\* entries that have not expired and leaves those.
C21_NoExpiredDataReturned ==
    [][/\ \A sid \in SessionIds :
            (/\ Polled(sid)
             /\ cli.pending[sid] # <<>>
             /\ cli.now > cli.pending[sid][1].expires_at)
            => (cli'.result = <<>> /\ cli'._sessions[sid] = <<>>)
       /\ (Called("cleanup_all_expired") \/ Called("get_stats")) =>
            \A sid \in SessionIds :
                IF sid \in Expired(cli._sessions, cli.now)
                THEN cli'._sessions[sid] = <<>>
                ELSE /\ cli'._sessions[sid] = cli._sessions[sid]
                     /\ cli._sessions[sid] # <<>> =>
                            get(cli'._sessions, cli'.now, sid, FALSE).value
                                = <<cli._sessions[sid][1].data>>
       /\ Called("cleanup_all_expired") =>
            cli'.count = Cardinality(Expired(cli._sessions, cli.now))
       /\ Called("get_stats") =>
            cli'.count = Cardinality({sid \in SessionIds :
                                        /\ cli._sessions[sid] # <<>>
                                        /\ sid \notin Expired(cli._sessions, cli.now)})
      ]_vars

\* cleanup_all_expired has removed the one expired entry and left the other
C21_Witness ==
    /\ cli.op = "cleanup_all_expired"
    /\ cli.count = 1
    /\ \E sid \in SessionIds :
        /\ cli._sessions[sid] # <<>>
        /\ cli.now <= cli._sessions[sid][1].expires_at
        /\ cli.now > expiry_seconds

----------------------------------------------------------------------------
(* Properties of the WebSocket binding, under SpecWS *)

\* the frames 1 .. n in the order the client sent them
Frames(n) == [i \in 1..n |-> i]

\* C22: on each connection the requests are dispatched in the order they
\* were received, at most one dispatch is in progress, the reply to a request
\* is written before the next is dispatched, so the replies leave in the
\* order of the requests; nothing relates the progress of two connections.
C22_OneRequestAtATimeInOrder ==
    \A c \in Connections :
        /\ ws[c].started = Frames(Len(ws[c].started))
        /\ ws[c].sent = Frames(Len(ws[c].sent))
        /\ Len(ws[c].sent) <= Len(ws[c].started)
        /\ Len(ws[c].started) <= Len(ws[c].sent) + 1
        /\ Len(ws[c].started) + Len(ws[c].inbox) = ws[c].received

\* one connection has had its two requests answered while the other is in
\* the middle of its first dispatch, with its second request waiting
C22_Witness ==
    /\ Len(ws["c1"].sent) = 2
    /\ ws["c2"].pc = "dispatching"
    /\ ws["c2"].started = <<1>>
    /\ ws["c2"].sent = <<>>
    /\ ws["c2"].inbox = <<2>>

----------------------------------------------------------------------------
(* Properties of the handlers over any snapshot, under SpecSnapshot *)

\* the connectors of the snapshot whose enabled flag is false
Disabled == {c \in Range(server.connectors) : ~c.is_enabled}

\* C23: whatever requests are served, no plugin method is called for a
\* connector that is disabled in the snapshot and no credential is looked up
\* for it; tools/call of a tool name that begins with its type returns the
\* text 'Connector not found or not enabled', and resources/read of a URI of
\* its scheme fails as for a connector that is not found: both without any
\* plugin call or credential lookup.
C23_DisabledConnectorNeverDispatched ==
    \A d \in Disabled :
        /\ \A i \in DOMAIN last.calls : last.calls[i].connector # d
        /\ \A i \in DOMAIN last.lookups : last.lookups[i].provider # d.connector_type
        /\ (last.op = "tools/call" /\ HasTypePrefix(last.arg, d.connector_type)) =>
            /\ ~last.raised
            /\ Len(last.value) = 1
            /\ last.value[1].text = "Connector not found or not enabled"
            /\ last.calls = <<>>
            /\ last.lookups = <<>>
        /\ (/\ last.op = "resources/read"
            /\ Len(SplitUri(last.uri)) = 2
            /\ SplitUri(last.uri)[1] = d.connector_type) =>
            /\ last.raised
            /\ last.calls = <<>>
            /\ last.lookups = <<>>

\* tools/call has named a tool of a disabled connector of a snapshot that
\* also holds an enabled one
C23_Witness ==
    /\ last.op = "tools/call"
    /\ \E d \in Disabled : HasTypePrefix(last.arg, d.connector_type)
    /\ \E c \in Range(server.connectors) : c.is_enabled

\* C24: the queue between the producer task and the consumer loop of the SSE
\* stream is bounded: some capacity below the number of messages a producer
\* writes is never exceeded by the messages written and not yet taken, the
\* producer waiting while the queue is full.
C24_QueueIsBounded ==
    \E capacity \in 1 .. (MaxMsgs - 1) : Len(sse.queue) <= capacity

\* C27: the SSE stream does not outlive its producer: when the producer task
\* has ended, by returning or by raising, and every message it queued has
\* been taken, the consumer loop eventually ends the stream, the client
\* staying connected.
C27_StreamEndsAfterProducer ==
    (sse.task \in {"finished", "failed"} /\ sse.queue = <<>> /\ sse.pc = "get")
        ~> (sse.pc = "done" \/ sse.client = "disconnected")

----------------------------------------------------------------------------
(* Properties of a session beside another tenant, under SpecTenants *)

\* the id of the tenant the session was initialized for
SessionTenant == IF server.tenant = <<>> THEN "" ELSE server.tenant[1].id

\* every connector and credential the session holds or has just used is of
\* its own tenant
OwnDataOnly ==
    /\ \A i \in DOMAIN server.connectors :
        server.connectors[i].tenant_id = SessionTenant
    /\ \A i \in DOMAIN last.calls :
        /\ last.calls[i].connector.tenant_id = SessionTenant
        /\ \A j \in DOMAIN last.calls[i].oauth_cred :
            last.calls[i].oauth_cred[j].tenant_id = SessionTenant
    /\ \A i \in DOMAIN last.lookups : last.lookups[i].tenant_id = SessionTenant

\* what the session would load and reply now, for every request, the
\* database and the plugins answering
Replies ==
    [loaded |-> _get_tenant_connectors("t1"),
     list_tools |-> handle_list_tools(server.connectors, Quiet),
     call_tool |-> [n \in ToolNames |-> handle_call_tool(server.connectors, n, Quiet)],
     list_resources |-> handle_list_resources(server.connectors, Quiet),
     read_resource |-> [u \in Uris |-> handle_read_resource(server.connectors, u, Quiet)]]

\* C25: in a session initialized for a tenant, every connector consulted by
\* tools/list, tools/call, resources/list and resources/read is a row of that
\* tenant, and so is every credential looked up or handed to a plugin; and a
\* change of the connectors or credentials of the other tenant changes
\* neither what initialize loads nor any reply of the session.
C25_TenantIsolation ==
    /\ []OwnDataOnly
    /\ [][(connectors' # connectors \/ oauth_credentials' # oauth_credentials)
            => Replies' = Replies]_vars

\* a plugin of the session's tenant has been called while the other tenant
\* has an enabled connector of the same type and an active credential
C25_Witness ==
    /\ phase = "ready"
    /\ last.op = "tools/call"
    /\ last.calls # <<>>
    /\ \E c \in connectors :
        c.tenant_id = "t2" /\ c.is_enabled /\ c.connector_type = last.calls[1].connector.connector_type
    /\ \E c \in OtherCredRows : oauth_credentials[c] > 0 /\ c.is_active

----------------------------------------------------------------------------
(* Properties of a session that is not ready, under Spec *)

\* initialize has not been called, or has returned False
NotReady == phase \in {"new", "failed"}

\* no plugin method was called and no credential looked up
NothingReached == last.calls = <<>> /\ last.lookups = <<>>

\* C26: in a session that is not ready the connector set is empty: tools/list
\* and resources/list return empty lists, tools/call returns the text
\* "Connector not found or not enabled", resources/read fails, and no plugin
\* method or credential lookup is invoked.
C26_NotReadyAnswersNotFound ==
    NotReady =>
        /\ server.connectors = <<>>
        /\ NothingReached
        /\ last.op \in {"tools/list", "resources/list"} =>
            (~last.raised /\ last.value = <<>>)
        /\ last.op = "tools/call" =>
            /\ ~last.raised
            /\ last.value =
                 <<Text("Connector not found or not enabled", <<Head(last.arg)>>)>>
        /\ last.op = "resources/read" => last.raised

\* C26, amended: as above, but the text of tools/call is "Invalid tool name
\* format" when the name contains no '_'; "Connector not found or not
\* enabled" is the text of the names that contain one.
C26_NotReadyReachesNoPlugin ==
    NotReady =>
        /\ server.connectors = <<>>
        /\ NothingReached
        /\ last.op \in {"tools/list", "resources/list"} =>
            (~last.raised /\ last.value = <<>>)
        /\ last.op = "tools/call" =>
            /\ ~last.raised
            /\ last.value =
                 IF Len(last.arg) < 2
                 THEN <<Text("Invalid tool name format", last.arg)>>
                 ELSE <<Text("Connector not found or not enabled", <<Head(last.arg)>>)>>
        /\ last.op = "resources/read" => last.raised

\* a session whose initialize failed, the tenant having an enabled connector
\* of the type named, has answered a tools/call
C26_Witness ==
    /\ phase = "failed"
    /\ last.op = "tools/call"
    /\ \E c \in connectors : c.is_enabled /\ HasTypePrefix(last.arg, c.connector_type)

----------------------------------------------------------------------------
(* Properties of CLISessionStorage under concurrency, under SpecThreads *)

\* the data the dict holds for the session now: <<>> when it holds none
StoredNow ==
    IF cli._sessions[TheSession] = <<>> THEN <<>>
    ELSE <<cli._sessions[TheSession][1].data>>

\* thread t completes the body of a get in this step
GetCompletes(t) ==
    threads.thread[t].pc = "get_finish" /\ threads'.thread[t].pc = "release"

\* C28: in any interleaving of threads that call get(id) and store(id, data)
\* on one session that does not expire, a get returns the data the dict
\* holds at the moment it completes and leaves no entry, so that of the gets
\* that follow one store exactly one returns its data and the others None;
\* no get raises, and what a get returns is None or the whole data of a store.
C28_GetIsAtomic ==
    [][\A t \in Threads : GetCompletes(t) =>
        /\ ~threads'.thread[t].raised
        /\ threads'.thread[t].result = StoredNow
        /\ threads'.thread[t].result \in {<<>>} \cup {<<d>> : d \in SessionData}
        /\ cli'._sessions[TheSession] = <<>>]_vars

\* a get has taken the data and still holds the lock while the get of the
\* other thread waits for it
C28_Witness ==
    /\ threads.thread["T1"].op = "get"
    /\ threads.thread["T1"].pc = "release"
    /\ threads.thread["T1"].result # <<>>
    /\ threads.thread["T2"].op = "get"
    /\ threads.thread["T2"].pc = "acquire"

----------------------------------------------------------------------------
(* Independence of registrations, under SpecRegistry *)

\* C29: registrations of different connector types are independent:
\* register(T2, C) leaves the plugin instance get_connector(T1) returns
\* unchanged for every type T1 other than T2, whatever name the instance of
\* C reports.
C29_RegistrationsAreIndependent ==
    [][\A T2 \in {GITHUB, JIRA}, cls \in SrcPlugins :
        registry' = register(registry, T2, cls) =>
            \A T1 \in ConnectorType \ {T2} :
                get_connector_instance(T1)' = get_connector_instance(T1)]_vars

----------------------------------------------------------------------------
(* Properties of toggle_connector under interleaving, under SpecToggle *)

\* the requests that have completed a toggle of the connector
Completed(connector_id) ==
    {r \in ToggleRequests :
        toggles[r].pc = "done" /\ toggles[r].connector_type = connector_id}

\* C30: after n completed toggle requests on one connector, in any
\* interleaving of their read and write steps, the stored flag is the
\* original value (enabled) if n is even and its negation if n is odd.
C30_FlagFlipsOncePerRequest ==
    (\A r \in ToggleRequests : toggles[r].pc # "read") =>
        \A c \in connectors :
            c.is_enabled = (Cardinality(Completed(c.connector_type)) % 2 = 0)

====
